---------------------------- MODULE Spec2Model ----------------------------
(***************************************************************************)
(* Triangular arbitrage bot: the scan coordinator (ArbitrageBot), the      *)
(* network condition monitor (NetworkService), the RPC endpoint pool       *)
(* (RPCManager) and the scanner / profitability evaluator                  *)
(* (ArbitrageChecker, ProfitCalculator).                                   *)
(*                                                                         *)
(* Three specifications share the variables of this module:                *)
(*   SpecCoord  the coordinator's cycles and the network monitor           *)
(*   SpecPool   the endpoint pool                                          *)
(*   SpecScan   one scan (sweep of loan amounts over rotations)            *)
(* Each leaves the variables of the other two at their initial values.     *)
(***************************************************************************)
EXTENDS Integers, Sequences, FiniteSets, TLC

(***************************************************************************)
(* Program constants                                                       *)
(***************************************************************************)
\* networkService.js:49, "failedAttempts >= 3"
NetFailThreshold == 3
\* networkService.js:114, "> 5 * 60 * 1000", in minutes
RecheckMinutes == 5
\* MAX_GAS_PRICE_GWEI of the environment file (README)
MAX_GAS_PRICE_GWEI == 10
\* GAS_PRICE_GWEI default of the environment file (README)
GAS_PRICE_GWEI == 5
\* fileManager.js:251, "failCounts[...] < 3"; :288, ">= 3"
FailThreshold == 3
\* fileManager.js:252, "now - lastUsed[...] > 500", in ms
RateLimitMs == 500
\* MIN_PROFIT_PERCENTAGE of the environment file (README), in percent
MIN_PROFIT_PERCENTAGE == 1
\* priceService.js:665, "priceGap >= 5.0"
ReverseGapPercent == 5
\* networkService.js:80, "< 2 * 60 * 1000", in minutes
CacheMinutes == 2
\* fileManager.js:346, "1000 * Math.pow(2, attempts - 1)", in ms
BackoffBaseMs == 1000
\* fileManager.js:346, "Math.min(..., 10000)", in ms
BackoffCapMs == 10000
\* fileManager.js:351, "parseUnits('5', 'gwei')"
DefaultGasPriceGwei == 5

(***************************************************************************)
(* Bounds of the model                                                     *)
(***************************************************************************)
\* the coordinator's clock runs StartClock .. StartClock + MaxClockTicks
MaxClockTicks == 1
\* consecutive sampling failures the monitor is driven to
MaxNetFailures == 3
\* the pool has 1 .. MaxProviders endpoints
MaxProviders == 2
\* reportFailure() is called while the counts of the pool add up to less
\* than MaxFailCount
MaxFailCount == 3
\* cooldown timers pending at one time
MaxTimers == 1
\* checkArbitrageLoop() calls in one scan (6 per configured triple)
MaxLoops == 2
\* loan amounts swept by one checkArbitrageLoop() (testAmounts.length)
NumAmounts == 2
\* a hop output large enough to leave a non-zero minimum
DustFreeOutput == 150
\* the first loan amount; the k-th is k times it
LoanUnit == 1000
\* the gas cost of one execution, in value units
GasCostUSD == 2
\* RPC_RETRY_COUNT is configured as one of 0 .. MaxRetries
MaxRetries == 6
\* getGasPrice() is followed over MaxMinutes minutes
MaxMinutes == 3

(***************************************************************************)
(* Coordinator and network monitor: state                                  *)
(***************************************************************************)
VARIABLES
    botStarted,       \* start() has scheduled the cron jobs
    isRunning,        \* ArbitrageBot.isRunning, the scan-in-progress flag
    pc,               \* where each cycle is suspended ("idle": not executing)
    networkHealth,    \* NetworkService.networkHealth
    clock,            \* Date.now(), in minutes
    executionEnabled, \* EXECUTION_ENABLED
    cycleNetHealthy,  \* per cycle: networkHealth.isHealthy when it was decided
    cyclePaused,      \* per cycle: what paused() last answered to it
    lastTrigger,      \* the last cron trigger and whether it was skipped
    lastExit,         \* the last cycle that ended, the path it took and
                      \* whether its scan had returned opportunities
    consecFails,      \* sampling failures since the last successful sample
    lastRecheckAt     \* Date.now() when isNetworkReadyForArbitrage() last
                      \* re-ran checkNetworkHealth() (0: never)

coordVars == <<botStarted, isRunning, pc, networkHealth, clock,
               executionEnabled, cycleNetHealthy, cyclePaused, lastTrigger,
               lastExit, consecFails, lastRecheckAt>>

(***************************************************************************)
(* RPCManager (the endpoint pool): state                                   *)
(***************************************************************************)
VARIABLES
    numProviders,     \* rpcUrls.length: the primary and the backups
    currentIndex,     \* the rotation pointer
    failCounts,       \* per endpoint: the failure count
    lastUsed,         \* per endpoint: Date.now() of its last selection, in
                      \* ms; 0 once it is more than RateLimitMs in the past
    healthStatus,     \* per endpoint: TRUE is Healthy
    now,              \* Date.now(), in ms, from an origin that moves with
                      \* the clock
    cooldownTimers,   \* pending cooldown timers, by the endpoint whose
                      \* failure scheduled them (the callback itself holds
                      \* no endpoint: it reads currentIndex when it fires)
    lastCall,         \* the last call on the pool: the endpoint it returned
                      \* (getProvider) or landed on (reports); for
                      \* getProvider, the path taken and the endpoint of the
                      \* run of FailThreshold failures it follows, if any
    failRun,          \* length of the current run of reportFailure calls
                      \* that landed on one endpoint, with no other call
                      \* and no cooldown expiry in between
    failStreak        \* the endpoint the last failure report landed on, and
                      \* how many landed on it in a row (up to 3) with no
                      \* success report and no failure report for another
                      \* endpoint in between

poolVars == <<numProviders, currentIndex, failCounts, lastUsed, healthStatus,
              now, cooldownTimers, lastCall, failRun,
              failStreak>>

(***************************************************************************)
(* ArbitrageChecker (one scan): state                                      *)
(***************************************************************************)
VARIABLES
    scanPc,           \* "idle", "begin" (a checkArbitrageLoop call is due),
                      \* "sweep" (inside its loop over the loan amounts),
                      \* "done" (list returned), "acted" (list acted on)
    loopNo,           \* the checkArbitrageLoop call of the scan, from 1
    amtNo,            \* the next loan amount of the sweep, from 1
    originalDirection, \* the direction the caller asked for
    direction,        \* the direction simulated (TRUE: PancakeSwap first)
    priceGap,         \* checkPriceGap() of the rotation, in percent
    best,             \* bestLoanAmount, bestMinAmountsOut, bestProfitResult
    opportunities,    \* the list being built, then the list returned
    submitted,        \* the opportunities handed to executeArbitrage()
    lastCandidate,    \* the minimum outputs given to calculateProfit() for
                      \* the last swept amount, <<>> if it was not called
    lastEval,         \* the call of calculateProfit() for the last swept
                      \* amount: what it met and what it returned; NoEval
                      \* if it was not called
    lastOutcome,      \* what became of the last swept amount
    flashLoanPair,    \* the local `flashLoanPair` of this call of
                      \* checkArbitrageLoop()
    swept             \* the amounts swept so far by this call of
                      \* checkArbitrageLoop(): for one that cleared the
                      \* threshold, its loan amount, minimum outputs
                      \* and profit result

scanVars == <<scanPc, loopNo, amtNo, originalDirection, direction, priceGap,
              best, opportunities, submitted, lastCandidate, lastEval,
              lastOutcome, flashLoanPair, swept>>

(***************************************************************************)
(* RPCManager.getGasPrice (one call): state                                *)
(***************************************************************************)
VARIABLES
    retryCount,       \* RPC_RETRY_COUNT
    gasPc,            \* "idle", "loop" (at the while test), "request"
                      \* (awaiting provider.getGasPrice() or its timeout),
                      \* "sleep" (awaiting the backoff timer), "returned"
    attempts,         \* the local variable `attempts`
    requests,         \* provider.getGasPrice() calls made by this call
    waits,            \* the backoff waits of this call so far, in ms
    gasResult         \* what the call returned, in gwei; NoResult before

gasVars == <<retryCount, gasPc, attempts, requests, waits, gasResult>>

(***************************************************************************)
(* Router quotes (one call of checkTriangularPrice or of                   *)
(* calculateSwapOutputs): state                                            *)
(***************************************************************************)
VARIABLES
    qPc,              \* "idle", "hop" (awaiting router.getAmountsOut()),
                      \* "done"
    qCall,            \* the function called: "cycle" (checkTriangularPrice)
                      \* or "swap" (calculateSwapOutputs); "none" before
    qRouter,          \* checkTriangularPrice: the router argument
    qDirection,       \* calculateSwapOutputs: the direction argument
    qAmountIn,        \* the amountIn / loanAmount argument
    outs,             \* the hop outputs obtained so far (amounts[1])
    issued,           \* the getAmountsOut() calls made so far: the exchange
                      \* asked and the input amount
    qResult           \* what the call returned; NoQuote before

quoteVars == <<qPc, qCall, qRouter, qDirection, qAmountIn, outs, issued,
               qResult>>

(***************************************************************************)
(* NetworkService.getGasPrice: state                                       *)
(***************************************************************************)
VARIABLES
    gPc,              \* "idle" or "sampling" (awaiting
                      \* provider.getGasPrice())
    gMultiplier,      \* floor(multiplier * 100) of the call in progress
    lastGasSampleAt,  \* Date.now(), in minutes, when getGasPrice() last
                      \* obtained a sample (0: never)
    lastGas           \* the last return of getGasPrice(): the path taken,
                      \* floor(multiplier * 100), the price it rests on and
                      \* the value returned

netGasVars == <<gPc, gMultiplier, lastGasSampleAt, lastGas>>

(***************************************************************************)
(* ProfitCalculator.updateFeeParameters: state                             *)
(***************************************************************************)
VARIABLES
    feeParameters,    \* this.feeParameters
    feePc,            \* 0: no refresh in progress; k > 0: awaiting read k
    feeReads,         \* the values the refresh in progress (or the last one)
                      \* has read, in the order of the reads
    feeBefore,        \* this.feeParameters when the last refresh began
    feeOutcome        \* "none", "running", "ok" (the refresh returned after
                      \* replacing the cache), "failed" (it returned from
                      \* its catch) or "threw"

feeVars == <<feeParameters, feePc, feeReads, feeBefore, feeOutcome>>

(***************************************************************************)
(* Configuration                                                           *)
(***************************************************************************)
VARIABLES
    minProfitPercentage   \* MIN_PROFIT_PERCENTAGE as configured, in percent

configVars == <<minProfitPercentage>>

(***************************************************************************)
(* Minimum outputs of one swept amount: state                              *)
(***************************************************************************)
VARIABLES
    mPc,              \* "quoted" (calculateSwapOutputs() has returned),
                      \* "skipped" (the `continue` of the zero check) or
                      \* "evaluate" (calculateProfit() is called)
    mQuoted,          \* result.amountOut1 .. amountOut3, in base units
    mMins             \* minAmountOut1 .. minAmountOut3, in base units

minVars == <<mPc, mQuoted, mMins>>

(***************************************************************************)
(* The cron cadences: state                                                *)
(***************************************************************************)
VARIABLES
    minute,           \* the minute of the last cron instant, modulo 15
    due               \* the scheduled jobs whose callback for that instant
                      \* has not run yet

cadenceVars == <<minute, due>>

(***************************************************************************)
(* The passes of checkArbitrageOpportunities() over one triple: state      *)
(***************************************************************************)
VARIABLES
    passes            \* the calls of checkArbitrageLoop() made so far for
                      \* the triple: the price gap each sampled and the
                      \* direction it went on to simulate

passVars == <<passes>>

(***************************************************************************)
(* Two calls of RPCManager.getGasPrice() in flight at once: state          *)
(***************************************************************************)
VARIABLES
    held,             \* per caller: the endpoint its getProvider() returned
                      \* and whose answer it awaits, or NoIdx
    overtaken,        \* per caller: another caller's getProvider() moved
                      \* the pointer off the endpoint it awaits
    lastReport        \* the last report made: by whom, for which endpoint,
                      \* and the endpoint whose count it changed

callerVars == <<held, overtaken, lastReport>>

(***************************************************************************)
(* ArbitrageExecutor.executeArbitrage: state                               *)
(***************************************************************************)
VARIABLES
    ePc,              \* where executeArbitrage() is suspended ("idle": not
                      \* called, "returned": it has returned)
    eOpp,             \* the opportunity it was handed
    eAuthReply,       \* what isPairAuthorized() was answered in this call
    eAuthOutcome,     \* how authorizePair() ended in this call
    ePausedReply,     \* what paused() answered in this call
    eSubmitted,       \* the executeFlashLoan transactions this call sent
    eResult           \* what the call returned: "true" or "false"

execVars == <<ePc, eOpp, eAuthReply, eAuthOutcome, ePausedReply, eSubmitted,
              eResult>>

\* the variables of the parts that follow the passes
lateVars == <<callerVars, execVars>>

\* the variables of the parts that follow the configuration
tailVars == <<minVars, cadenceVars, passVars, lateVars>>

\* the variables of the parts that follow the endpoint pool's
restVars == <<quoteVars, netGasVars, feeVars, configVars, tailVars>>

vars == <<coordVars, poolVars, scanVars, gasVars, restVars>>

Cycles == {"initial", "high", "low"}
Scheduled == {"high", "low"}
Suspended == {"healthCheck", "netVerdict", "pauseCheck", "scan", "execute"}
ExitPaths == {"netNotReady", "paused", "done", "error"}

\* what provider.getGasPrice() can answer: a price in gwei, or SampleFail
GasSamples == {GAS_PRICE_GWEI, MAX_GAS_PRICE_GWEI, MAX_GAS_PRICE_GWEI + 1}
\* a failed sample (no price is negative)
SampleFail == 0 - 1

\* Date.now() at construction is far beyond lastCheckTime = 0
StartClock == RecheckMinutes + 1

(***************************************************************************)
(* NetworkService                                                          *)
(***************************************************************************)
\* constructor: networkHealth
InitNetworkHealth ==
    [lastCheckTime |-> 0, isHealthy |-> TRUE, failedAttempts |-> 0,
     gasPrice |-> GAS_PRICE_GWEI]

\* checkNetworkHealth(): the state after the sample `s` arrived at time t
ForcesUnhealthyAbove(failed) == failed > NetFailThreshold
\* "if (this.networkHealth.failedAttempts >= 3)"
ForcesUnhealthy(failed) == failed >= NetFailThreshold

CheckNetworkHealth(nh, s, t) ==
    IF s = SampleFail
    THEN [nh EXCEPT !.failedAttempts = @ + 1,
                    !.isHealthy = IF ForcesUnhealthy(nh.failedAttempts + 1)
                                  THEN FALSE ELSE @]
    ELSE IF s > MAX_GAS_PRICE_GWEI
         THEN [nh EXCEPT !.lastCheckTime = t, !.gasPrice = s,
                         !.isHealthy = FALSE]
         ELSE [nh EXCEPT !.lastCheckTime = t, !.gasPrice = s,
                         !.isHealthy = TRUE, !.failedAttempts = 0]

\* checkNetworkHealth(): its return value
CheckNetworkHealthResult(nh, s, t) ==
    IF s = SampleFail THEN FALSE ELSE CheckNetworkHealth(nh, s, t).isHealthy

\* a run of checkNetworkHealth() as seen from outside: the failed samples
\* in a row
Observed(s) ==
    consecFails' = IF s = SampleFail THEN consecFails + 1 ELSE 0

\* isNetworkReadyForArbitrage(): does it re-run the health check?
NeedsRecheck(nh, t) == t - nh.lastCheckTime > RecheckMinutes

\* isNetworkReadyForArbitrage(): its return value
IsNetworkReady(nh) == nh.isHealthy

\* the samples the environment may answer with (failures are capped)
Samples(nh) ==
    GasSamples \cup (IF nh.failedAttempts < MaxNetFailures
                     THEN {SampleFail} ELSE {})

(***************************************************************************)
(* ArbitrageExecutor.isContractPaused                                      *)
(***************************************************************************)
\* what flashArbitrageContract.paused() can answer
PausedReplies == {"notPaused", "paused", "error"}

\* isContractPaused(): an error while reading counts as paused
IsContractPausedUnlessError(reply) == reply = "paused"
IsContractPaused(reply) == reply # "notPaused"

(***************************************************************************)
(* ArbitrageBot: the cycles                                                *)
(***************************************************************************)
InitCoord ==
    /\ botStarted = FALSE
    /\ isRunning = FALSE
    /\ pc = [p \in Cycles |-> "idle"]
    /\ networkHealth = InitNetworkHealth
    /\ clock = StartClock
    /\ executionEnabled \in BOOLEAN
    /\ cycleNetHealthy = [p \in Cycles |-> TRUE]
    /\ cyclePaused = [p \in Cycles |-> "none"]
    /\ lastTrigger = [cycle |-> "none", skipped |-> FALSE]
    /\ lastExit = [cycle |-> "none", path |-> "none", found |-> FALSE]
    /\ consecFails = 0
    /\ lastRecheckAt = 0

\* the guard of a cron callback: "if (this.isRunning) { ...; return; }"
CanStartPerJob(p) == pc[p] = "idle"
CanStartAlways(p) == TRUE
CanStart(p) == ~isRunning

\* the finally block: the value isRunning has when a cycle ends by `path`
ReleaseUnlessError(path) == path = "error"
Release(path) == FALSE

\* a cycle ends: return or throw inside try, then finally
Exit(p, path, found) ==
    /\ pc' = [pc EXCEPT ![p] = "idle"]
    /\ isRunning' = Release(path)
    /\ lastExit' = [cycle |-> p, path |-> path, found |-> found]
    /\ cycleNetHealthy' = [cycleNetHealthy EXCEPT ![p] = TRUE]
    /\ cyclePaused' = [cyclePaused EXCEPT ![p] = "none"]

\* start(): checkNetworkHealth() (result ignored), the cron jobs are
\* scheduled, and runInitialCheck() sets the flag and asks for the pause state
Start(s) ==
    /\ ~botStarted
    /\ s \in Samples(networkHealth)
    /\ botStarted' = TRUE
    /\ networkHealth' = CheckNetworkHealth(networkHealth, s, clock)
    /\ isRunning' = TRUE
    /\ pc' = [pc EXCEPT !["initial"] = "pauseCheck"]
    /\ cycleNetHealthy' = [cycleNetHealthy EXCEPT
                              !["initial"] = networkHealth'.isHealthy]
    /\ UNCHANGED <<clock, executionEnabled, cyclePaused, lastTrigger, lastExit>>
    /\ Observed(s)
    /\ UNCHANGED lastRecheckAt
    /\ UNCHANGED <<poolVars, scanVars, gasVars, restVars>>

\* a cron trigger finds the flag set: logs and returns
DoTriggerSkipped(p) ==
    /\ botStarted
    /\ p \in Scheduled
    /\ ~CanStart(p)
    /\ lastTrigger' = [cycle |-> p, skipped |-> TRUE]
    /\ UNCHANGED <<botStarted, isRunning, pc, networkHealth, clock,
                   executionEnabled, cycleNetHealthy, cyclePaused, lastExit>>
    /\ UNCHANGED <<consecFails, lastRecheckAt>>

TriggerSkipped(p) ==
    /\ DoTriggerSkipped(p)
    /\ UNCHANGED <<poolVars, scanVars, gasVars, restVars>>

\* a cron trigger finds the flag clear: sets it and calls
\* isNetworkReadyForArbitrage()
DoTriggerStart(p) ==
    /\ botStarted
    /\ p \in Scheduled
    /\ pc[p] = "idle"   \* implied by CanStart(p): see C1_SingleCycle
    /\ CanStart(p)
    /\ isRunning' = TRUE
    /\ pc' = [pc EXCEPT ![p] = IF NeedsRecheck(networkHealth, clock)
                                THEN "healthCheck" ELSE "netVerdict"]
    /\ lastTrigger' = [cycle |-> p, skipped |-> FALSE]
    /\ UNCHANGED <<botStarted, networkHealth, clock, executionEnabled,
                   cycleNetHealthy, cyclePaused, lastExit>>
    /\ UNCHANGED <<consecFails, lastRecheckAt>>

TriggerStart(p) ==
    /\ DoTriggerStart(p)
    /\ UNCHANGED <<poolVars, scanVars, gasVars, restVars>>

\* the health check run by isNetworkReadyForArbitrage() gets its sample
HealthCheckReturns(p, s) ==
    /\ pc[p] = "healthCheck"
    /\ s \in Samples(networkHealth)
    /\ networkHealth' = CheckNetworkHealth(networkHealth, s, clock)
    /\ pc' = [pc EXCEPT ![p] = "netVerdict"]
    /\ UNCHANGED <<botStarted, isRunning, clock, executionEnabled,
                   cycleNetHealthy, cyclePaused, lastTrigger, lastExit>>
    /\ Observed(s)
    /\ lastRecheckAt' = clock
    /\ UNCHANGED <<poolVars, scanVars, gasVars, restVars>>

\* isNetworkReadyForArbitrage() returns: skip the cycle or ask for the
\* pause state
NetVerdict(p) ==
    /\ pc[p] = "netVerdict"
    /\ IF IsNetworkReady(networkHealth)
       THEN /\ pc' = [pc EXCEPT ![p] = "pauseCheck"]
            /\ cycleNetHealthy' = [cycleNetHealthy EXCEPT
                                      ![p] = networkHealth.isHealthy]
            /\ UNCHANGED <<isRunning, lastExit, cyclePaused>>
       ELSE Exit(p, "netNotReady", FALSE)
    /\ UNCHANGED <<botStarted, networkHealth, clock,
                   executionEnabled, lastTrigger>>
    /\ UNCHANGED <<consecFails, lastRecheckAt>>
    /\ UNCHANGED <<poolVars, scanVars, gasVars, restVars>>

\* isContractPaused() returns: skip the cycle or scan
PauseReturns(p, reply) ==
    /\ pc[p] = "pauseCheck"
    /\ reply \in PausedReplies
    /\ IF IsContractPaused(reply)
       THEN Exit(p, "paused", FALSE)
       ELSE /\ pc' = [pc EXCEPT ![p] = "scan"]
            /\ cyclePaused' = [cyclePaused EXCEPT ![p] = reply]
            /\ UNCHANGED <<isRunning, lastExit, cycleNetHealthy>>
    /\ UNCHANGED <<botStarted, networkHealth, clock,
                   executionEnabled, lastTrigger>>
    /\ UNCHANGED <<consecFails, lastRecheckAt>>
    /\ UNCHANGED <<poolVars, scanVars, gasVars, restVars>>

\* checkAndExecuteArbitrage(): is executeArbitrage() reached?  Not with an
\* empty list, and not past "if (!EXECUTION_ENABLED) return"
ExecutesWhenFound(found) == found
Executes(found) == found /\ executionEnabled

\* checkAndExecuteArbitrage(): the scan returns its list; the best
\* opportunity is executed only when execution is enabled
ScanReturns(p, found) ==
    /\ pc[p] = "scan"
    /\ found \in BOOLEAN
    /\ IF Executes(found)
       THEN /\ pc' = [pc EXCEPT ![p] = "execute"]
            /\ UNCHANGED <<isRunning, lastExit, cycleNetHealthy,
                           cyclePaused>>
       ELSE Exit(p, "done", found)
    /\ UNCHANGED <<botStarted, networkHealth,
                   clock, executionEnabled, lastTrigger>>
    /\ UNCHANGED <<consecFails, lastRecheckAt>>
    /\ UNCHANGED <<poolVars, scanVars, gasVars, restVars>>

\* executeArbitrage() returns: what it does to the cycle
DoExecuteReturns(p) ==
    /\ pc[p] = "execute"
    /\ Exit(p, "done", TRUE)
    /\ UNCHANGED <<botStarted, networkHealth,
                   clock, executionEnabled, lastTrigger>>
    /\ UNCHANGED <<consecFails, lastRecheckAt>>

\* executeArbitrage() returns
ExecuteReturns(p) ==
    /\ DoExecuteReturns(p)
    /\ UNCHANGED <<poolVars, scanVars, gasVars, restVars>>

\* an error is thrown inside the try block of a cycle: catch, then finally
CycleThrows(p) ==
    /\ pc[p] \in Suspended
    /\ Exit(p, "error", FALSE)
    /\ UNCHANGED <<botStarted, networkHealth,
                   clock, executionEnabled, lastTrigger>>
    /\ UNCHANGED <<consecFails, lastRecheckAt>>
    /\ UNCHANGED <<poolVars, scanVars, gasVars, restVars>>

\* the networkHealth cron job: checkNetworkHealth() gets its sample
NetworkHealthCron(s) ==
    /\ botStarted
    /\ s \in Samples(networkHealth)
    /\ networkHealth' = CheckNetworkHealth(networkHealth, s, clock)
    /\ UNCHANGED <<botStarted, isRunning, pc, clock, executionEnabled,
                   cycleNetHealthy, cyclePaused, lastTrigger, lastExit>>
    /\ Observed(s)
    /\ UNCHANGED lastRecheckAt
    /\ UNCHANGED <<poolVars, scanVars, gasVars, restVars>>

\* time passes (RecheckMinutes + 1 minutes at a time)
ClockTick ==
    /\ clock < StartClock + MaxClockTicks * (RecheckMinutes + 1)
    /\ clock' = clock + RecheckMinutes + 1
    /\ UNCHANGED <<botStarted, isRunning, pc, networkHealth, executionEnabled,
                   cycleNetHealthy, cyclePaused, lastTrigger, lastExit>>
    /\ UNCHANGED <<consecFails, lastRecheckAt>>
    /\ UNCHANGED <<poolVars, scanVars, gasVars, restVars>>

NextCoord ==
    \/ \E s \in GasSamples \cup {SampleFail} : Start(s)
    \/ \E p \in Scheduled : TriggerSkipped(p)
    \/ \E p \in Scheduled : TriggerStart(p)
    \/ \E p \in Scheduled, s \in GasSamples \cup {SampleFail} :
          HealthCheckReturns(p, s)
    \/ \E p \in Scheduled : NetVerdict(p)
    \/ \E p \in Cycles, reply \in PausedReplies : PauseReturns(p, reply)
    \/ \E p \in Cycles, found \in BOOLEAN : ScanReturns(p, found)
    \/ \E p \in Cycles : ExecuteReturns(p)
    \/ \E p \in Cycles : CycleThrows(p)
    \/ \E s \in GasSamples \cup {SampleFail} : NetworkHealthCron(s)
    \/ ClockTick


(***************************************************************************)
(* The cron cadences                                                       *)
(***************************************************************************)
\* '*/5 * * * *' and '*/15 * * * *'
HighEveryMinutes == 5
LowEveryMinutes == 15

\* the jobs whose pattern matches a minute
DueAt(m) ==
    {p \in Scheduled :
        m % (IF p = "high" THEN HighEveryMinutes ELSE LowEveryMinutes) = 0}

InitCadence ==
    /\ minute \in {0, HighEveryMinutes, 2 * HighEveryMinutes}
    /\ due = {}
CadenceIdle ==
    /\ minute = 0
    /\ due = {}

\* the next cron instant comes, every cycle having finished before it
NextInstant ==
    /\ botStarted
    /\ due = {}
    /\ \A p \in Cycles : pc[p] = "idle"
    /\ minute' = (minute + HighEveryMinutes) % LowEveryMinutes
    /\ due' = DueAt(minute')
    /\ UNCHANGED <<coordVars, poolVars, scanVars, gasVars, quoteVars,
                   netGasVars, feeVars, configVars, minVars, passVars,
                   lateVars>>

\* the callback of a job runs for this instant; the callbacks of one
\* instant run in either order
CronFires(p) ==
    /\ p \in due
    /\ due' = due \ {p}
    /\ DoTriggerSkipped(p) \/ DoTriggerStart(p)
    /\ UNCHANGED minute
    /\ UNCHANGED <<poolVars, scanVars, gasVars, quoteVars, netGasVars,
                   feeVars, configVars, minVars, passVars, lateVars>>

NextCadence ==
    \/ \E s \in GasSamples \cup {SampleFail} : Start(s)
    \/ NextInstant
    \/ \E p \in Scheduled : CronFires(p)
    \/ \E p \in Scheduled, s \in GasSamples \cup {SampleFail} :
          HealthCheckReturns(p, s)
    \/ \E p \in Scheduled : NetVerdict(p)
    \/ \E p \in Cycles, reply \in PausedReplies : PauseReturns(p, reply)
    \/ \E p \in Cycles, found \in BOOLEAN : ScanReturns(p, found)
    \/ \E p \in Cycles : ExecuteReturns(p)
    \/ \E p \in Cycles : CycleThrows(p)

(***************************************************************************)
(* RPCManager (the endpoint pool)                                          *)
(***************************************************************************)
Idx == 0 .. (numProviders - 1)
\* no endpoint
NoIdx == 0 - 1

\* Date.now() at construction is far beyond lastUsed = 0
StartNow == 2 * RateLimitMs

\* the sum of f over the indices 0 .. (n - 1)
RECURSIVE SumTo(_, _)
SumTo(f, n) == IF n = 0 THEN 0 ELSE f[n - 1] + SumTo(f, n - 1)

Min(a, b) == IF a < b THEN a ELSE b

\* constructor
InitPool ==
    /\ numProviders \in 1 .. MaxProviders
    /\ currentIndex = 0
    /\ failCounts = [i \in Idx |-> 0]
    /\ lastUsed = [i \in Idx |-> 0]
    /\ healthStatus = [i \in Idx |-> TRUE]
    /\ now = StartNow
    /\ cooldownTimers = [i \in Idx |-> 0]
    /\ lastCall = [op |-> "none", idx |-> 0, path |-> "none", after |-> NoIdx]
    /\ failRun = 0
    /\ failStreak = [idx |-> NoIdx, n |-> 0]

(***************************************************************************)
(* RPCManager.getProvider                                                  *)
(***************************************************************************)
\* the test applied to the current endpoint and to each candidate
QualifiesIgnoringHealth(i, t) ==
    failCounts[i] < FailThreshold /\ t - lastUsed[i] > RateLimitMs
QualifiesIgnoringCount(i, t) ==
    healthStatus[i] /\ t - lastUsed[i] > RateLimitMs
QualifiesIgnoringWindow(i, t) ==
    healthStatus[i] /\ failCounts[i] < FailThreshold
Qualifies(i, t) ==
    /\ healthStatus[i]
    /\ failCounts[i] < FailThreshold
    /\ t - lastUsed[i] > RateLimitMs

\* the k-th candidate of the search loop, k = 0 .. numProviders - 1
Candidate(k) == (currentIndex + k + 1) % numProviders

\* the fallback: what the failure counts become, and the endpoint used
FallbackKeepsCounts == failCounts
FallbackFailCounts == [i \in Idx |-> 0]
FallbackIndex == 0

\* the endpoint getProvider() selects at time t, and by which path
SelectProvider(t) ==
    IF Qualifies(currentIndex, t)
    THEN [idx |-> currentIndex, path |-> "current"]
    ELSE IF \E k \in Idx : Qualifies(Candidate(k), t)
         THEN LET k == CHOOSE k \in Idx :
                          /\ Qualifies(Candidate(k), t)
                          /\ \A j \in Idx : j < k => ~Qualifies(Candidate(j), t)
              IN  [idx |-> Candidate(k), path |-> "switch"]
         ELSE [idx |-> FallbackIndex, path |-> "fallback"]

\* getProvider(): what it does to the pool
DoGetProvider ==
    LET sel == SelectProvider(now) IN
    /\ currentIndex' = sel.idx
    /\ lastUsed' = [lastUsed EXCEPT ![sel.idx] = now]
    /\ failCounts' = IF sel.path = "fallback"
                     THEN FallbackFailCounts ELSE failCounts
    /\ lastCall' = [op |-> "getProvider", idx |-> sel.idx, path |-> sel.path,
                    after |-> IF failRun = FailThreshold
                              THEN lastCall.idx ELSE NoIdx]
    /\ failRun' = 0
    /\ UNCHANGED <<numProviders, healthStatus, now, cooldownTimers,
                   failStreak>>

\* getProvider() called from anywhere: it has no suspension point and no
\* guard
GetProvider ==
    /\ DoGetProvider
    /\ UNCHANGED <<coordVars, scanVars, gasVars, restVars>>

(***************************************************************************)
(* RPCManager.reportFailure / reportSuccess                                *)
(***************************************************************************)
\* "if (this.failCounts[this.currentIndex] >= 3)"
MarksAboveThreshold(c) == c > FailThreshold
MarksUnhealthy(c) == c >= FailThreshold

\* reportFailure(): counts against the current endpoint; at the threshold
\* marks it, schedules the cooldown timer and advances the pointer
DoReportFailure ==
    LET i == currentIndex
        c == failCounts[i] + 1
    IN
    /\ failCounts' = [failCounts EXCEPT ![i] = c]
    /\ IF MarksUnhealthy(c)
       THEN /\ healthStatus' = [healthStatus EXCEPT ![i] = FALSE]
            /\ cooldownTimers' = [cooldownTimers EXCEPT ![i] = @ + 1]
            /\ currentIndex' = (i + 1) % numProviders
       ELSE UNCHANGED <<healthStatus, cooldownTimers, currentIndex>>
    /\ lastCall' = [op |-> "reportFailure", idx |-> i, path |-> "none",
                    after |-> NoIdx]
    /\ failRun' = IF lastCall.op = "reportFailure" /\ lastCall.idx = i
                     /\ failRun > 0
                  THEN Min(failRun + 1, FailThreshold + 1) ELSE 1
    /\ failStreak' = IF failStreak.idx = i
                     THEN [idx |-> i, n |-> Min(failStreak.n + 1, FailThreshold)]
                     ELSE [idx |-> i, n |-> 1]
    /\ UNCHANGED <<numProviders, lastUsed, now>>

\* reportFailure() called from anywhere (the calls are capped)
ReportFailure ==
    /\ SumTo(failCounts, numProviders) < MaxFailCount
    /\ MarksUnhealthy(failCounts[currentIndex] + 1) =>
           SumTo(cooldownTimers, numProviders) < MaxTimers
    /\ DoReportFailure
    /\ UNCHANGED <<coordVars, scanVars, gasVars, restVars>>

\* reportSuccess(): resets the count of the current endpoint
DoReportSuccess ==
    /\ failCounts' = [failCounts EXCEPT ![currentIndex] = 0]
    /\ lastCall' = [op |-> "reportSuccess", idx |-> currentIndex,
                    path |-> "none", after |-> NoIdx]
    /\ failRun' = 0
    /\ failStreak' = [idx |-> NoIdx, n |-> 0]
    /\ UNCHANGED <<numProviders, currentIndex, lastUsed, healthStatus, now,
                   cooldownTimers>>

\* reportSuccess() called from anywhere
ReportSuccess ==
    /\ DoReportSuccess
    /\ UNCHANGED <<coordVars, scanVars, gasVars, restVars>>

\* the endpoint the cooldown callback resets: the one currentIndex
\* designates when the timer fires
CooldownTarget(scheduledFor) == currentIndex

\* a cooldown timer fires (RPC_COOLDOWN_MS after the failure that set it)
CooldownExpires(x) ==
    /\ x \in Idx
    /\ cooldownTimers[x] > 0
    /\ cooldownTimers' = [cooldownTimers EXCEPT ![x] = @ - 1]
    /\ healthStatus' = [healthStatus EXCEPT ![CooldownTarget(x)] = TRUE]
    /\ failCounts' = [failCounts EXCEPT ![CooldownTarget(x)] = 0]
    /\ failRun' = 0
    /\ UNCHANGED <<numProviders, currentIndex, lastUsed, now, lastCall,
                   failStreak>>
    /\ UNCHANGED <<coordVars, scanVars, gasVars, restVars>>

\* _checkHealth(): what a probe does to the failure counts (nothing)
ProbeResetsCount(i, ok) ==
    IF ok THEN [failCounts EXCEPT ![i] = 0] ELSE failCounts
ProbeFailCounts(i, ok) == failCounts

\* _checkHealth(): the probe of endpoint i is answered within 5 s (ok), or
\* fails or times out
ProbeReturns(i, ok) ==
    /\ i \in Idx
    /\ healthStatus' = [healthStatus EXCEPT ![i] = ok]
    /\ failCounts' = ProbeFailCounts(i, ok)
    /\ UNCHANGED <<numProviders, currentIndex, lastUsed, now,
                   cooldownTimers, lastCall, failRun, failStreak>>
    /\ UNCHANGED <<coordVars, scanVars, gasVars, restVars>>

\* more than RateLimitMs passes: every earlier selection is now outside
\* the rate-limit window, as one made at time 0 is (getProvider() only
\* reads now - lastUsed[i] > RateLimitMs, so the origin moves with the clock)
PoolTick ==
    /\ \E i \in Idx : lastUsed[i] # 0
    /\ lastUsed' = [i \in Idx |-> 0]
    /\ UNCHANGED <<numProviders, currentIndex, failCounts, now, healthStatus,
                   cooldownTimers, lastCall, failRun, failStreak>>
    /\ UNCHANGED <<coordVars, scanVars, gasVars, restVars>>

NextPool ==
    \/ GetProvider
    \/ ReportFailure
    \/ ReportSuccess
    \/ \E x \in Idx : CooldownExpires(x)
    \/ \E i \in Idx, ok \in BOOLEAN : ProbeReturns(i, ok)
    \/ PoolTick

(***************************************************************************)
(* RPCManager.getGasPrice                                                  *)
(***************************************************************************)
\* the values the configuration can give RPC_RETRY_COUNT
RetryCounts == 0 .. MaxRetries

\* the call has not returned
NoResult == 0 - 2
\* the call returned without a value (it ran off the end of the function)
Undefined == 0 - 1
\* what provider.getGasPrice() can answer, in gwei
QuotedGasPrices == {3, 7}

RECURSIVE Pow2(_)
Pow2(n) == IF n = 0 THEN 1 ELSE 2 * Pow2(n - 1)

\* "Math.min(1000 * Math.pow(2, attempts - 1), 10000)"
WaitTime(k) == Min(BackoffBaseMs * Pow2(k - 1), BackoffCapMs)

InitGas ==
    /\ retryCount \in RetryCounts
    /\ gasPc = "idle"
    /\ attempts = 0
    /\ requests = 0
    /\ waits = <<>>
    /\ gasResult = NoResult

\* getGasPrice() is called: "let attempts = 0"
GetGasPriceCalled ==
    /\ gasPc = "idle"
    /\ gasPc' = "loop"
    /\ attempts' = 0
    /\ UNCHANGED <<retryCount, requests, waits, gasResult>>
    /\ UNCHANGED <<coordVars, poolVars, scanVars, restVars>>

\* "while (attempts < RPC_RETRY_COUNT)": getProvider() and the request, or
\* the end of the function
BeginAttempt ==
    /\ gasPc = "loop"
    /\ IF attempts < retryCount
       THEN /\ DoGetProvider
            /\ requests' = requests + 1
            /\ gasPc' = "request"
            /\ UNCHANGED gasResult
       ELSE /\ gasPc' = "returned"
            /\ gasResult' = Undefined
            /\ UNCHANGED <<poolVars, requests>>
    /\ UNCHANGED <<retryCount, attempts, waits>>
    /\ UNCHANGED <<coordVars, scanVars, restVars>>

\* the request is answered: reportSuccess(), return gasPrice
RequestReturns(q) ==
    /\ gasPc = "request"
    /\ DoReportSuccess
    /\ gasResult' = q
    /\ gasPc' = "returned"
    /\ UNCHANGED <<retryCount, attempts, requests, waits>>
    /\ UNCHANGED <<coordVars, scanVars, restVars>>

\* the request fails or times out: the catch block
RequestFails ==
    /\ gasPc = "request"
    /\ attempts' = attempts + 1
    /\ DoReportFailure
    /\ IF attempts' < retryCount
       THEN /\ waits' = Append(waits, WaitTime(attempts'))
            /\ gasPc' = "sleep"
            /\ UNCHANGED gasResult
       ELSE /\ gasResult' = DefaultGasPriceGwei
            /\ gasPc' = "returned"
            /\ UNCHANGED waits
    /\ UNCHANGED <<retryCount, requests>>
    /\ UNCHANGED <<coordVars, scanVars, restVars>>

\* the backoff timer fires: at least BackoffBaseMs, which is more than
\* RateLimitMs, have passed
SleepEnds ==
    /\ gasPc = "sleep"
    /\ gasPc' = "loop"
    /\ lastUsed' = [i \in Idx |-> 0]
    /\ UNCHANGED <<numProviders, currentIndex, failCounts, now, healthStatus,
                   cooldownTimers, lastCall, failRun, failStreak>>
    /\ UNCHANGED <<retryCount, attempts, requests, waits, gasResult>>
    /\ UNCHANGED <<coordVars, scanVars, restVars>>

\* one call of getGasPrice(), with the cooldown timers and the clock
NextGas ==
    \/ GetGasPriceCalled
    \/ BeginAttempt
    \/ \E q \in QuotedGasPrices : RequestReturns(q)
    \/ RequestFails
    \/ SleepEnds
    \/ \E x \in Idx : CooldownExpires(x)
    \/ PoolTick

(***************************************************************************)
(* ArbitrageChecker.checkTriangularPrice / calculateSwapOutputs            *)
(***************************************************************************)
Exchanges == {"pancake", "biswap"}
\* router.getAmountsOut() threw
HopThrows == 0 - 1
\* router.getAmountsOut() returned nothing or fewer than 2 amounts
HopShort == 0 - 2
\* amounts[1] of a reply
HopOutputs == {0, 90, 110}
HopReplies == HopOutputs \cup {HopThrows, HopShort}
\* the amountIn / loanAmount arguments
QuoteInputs == {100, 200}
HopsPerCycle == 3

\* the call has not returned
NoQuote == [returned |-> FALSE]
\* checkTriangularPrice: "return null"
Null == [returned |-> TRUE, null |-> TRUE]
\* calculateSwapOutputs: "return { success: false }"
Failure == [returned |-> TRUE, success |-> FALSE]

\* the input of the next hop: the previous hop's output, amountIn first
HopInputInitial(amountIn, got) == amountIn
HopInput(amountIn, got) ==
    IF got = <<>> THEN amountIn ELSE got[Len(got)]

\* calculateSwapOutputs: the exchange asked for a hop ("if (direction)")
HopExchangeSame(dir, hop) == IF dir THEN "pancake" ELSE "biswap"
HopExchange(dir, hop) ==
    IF dir = (hop # 2) THEN "pancake" ELSE "biswap"

\* the exchange the call in progress asks for a hop
ExchangeFor(hop) ==
    IF qCall = "cycle" THEN qRouter ELSE HopExchange(qDirection, hop)

InitQuote ==
    /\ qPc = "idle"
    /\ qCall = "none"
    /\ qRouter = "pancake"
    /\ qDirection = TRUE
    /\ qAmountIn = 0
    /\ outs = <<>>
    /\ issued = <<>>
    /\ qResult = NoQuote

\* checkTriangularPrice(router, amountIn, path): up to the first await
CheckTriangularPrice(router, amountIn) ==
    /\ qPc = "idle"
    /\ qCall' = "cycle"
    /\ qRouter' = router
    /\ qAmountIn' = amountIn
    /\ issued' = <<[exchange |-> router,
                    amountIn |-> HopInput(amountIn, <<>>)]>>
    /\ qPc' = "hop"
    /\ UNCHANGED <<qDirection, outs, qResult>>
    /\ UNCHANGED <<coordVars, poolVars, scanVars, gasVars, netGasVars,
                   feeVars, configVars, tailVars>>

\* calculateSwapOutputs(direction, loanAmount, ...): up to the first await
CalculateSwapOutputs(dir, loanAmount) ==
    /\ qPc = "idle"
    /\ qCall' = "swap"
    /\ qDirection' = dir
    /\ qAmountIn' = loanAmount
    /\ issued' = <<[exchange |-> HopExchange(dir, 1),
                    amountIn |-> HopInput(loanAmount, <<>>)]>>
    /\ qPc' = "hop"
    /\ UNCHANGED <<qRouter, outs, qResult>>
    /\ UNCHANGED <<coordVars, poolVars, scanVars, gasVars, netGasVars,
                   feeVars, configVars, tailVars>>

\* router.getAmountsOut() settles: the call returns its failure value, or
\* takes amounts[1] and goes on to the next hop, or returns its result
HopReturns(reply) ==
    /\ qPc = "hop"
    /\ IF reply \in {HopThrows, HopShort}
       THEN /\ qResult' = IF qCall = "cycle" THEN Null ELSE Failure
            /\ qPc' = "done"
            /\ UNCHANGED <<outs, issued>>
       ELSE /\ outs' = Append(outs, reply)
            /\ IF Len(outs') < HopsPerCycle
               THEN /\ issued' = Append(issued,
                          [exchange |-> ExchangeFor(Len(outs') + 1),
                           amountIn |-> HopInput(qAmountIn, outs')])
                    /\ UNCHANGED <<qPc, qResult>>
               ELSE /\ qResult' =
                          IF qCall = "cycle"
                          THEN [returned |-> TRUE, null |-> FALSE,
                                amountOut |-> outs'[HopsPerCycle]]
                          ELSE [returned |-> TRUE, success |-> TRUE,
                                amountOut1 |-> outs'[1],
                                amountOut2 |-> outs'[2],
                                amountOut3 |-> outs'[3],
                                loanAmount |-> qAmountIn]
                    /\ qPc' = "done"
                    /\ UNCHANGED issued
    /\ UNCHANGED <<qCall, qRouter, qDirection, qAmountIn>>
    /\ UNCHANGED <<coordVars, poolVars, scanVars, gasVars, netGasVars,
                   feeVars, configVars, tailVars>>

NextQuote ==
    \/ \E router \in Exchanges, amountIn \in QuoteInputs :
          CheckTriangularPrice(router, amountIn)
    \/ \E dir \in BOOLEAN, loanAmount \in QuoteInputs :
          CalculateSwapOutputs(dir, loanAmount)
    \/ \E reply \in HopReplies : HopReturns(reply)

(***************************************************************************)
(* ProfitCalculator.updateFeeParameters                                    *)
(***************************************************************************)
\* the four reads, in the order the code awaits them
FeeFields ==
    <<"pancakeSwapFeeNumerator", "pancakeSwapFeeDenominator",
      "biswapFeeNumerator", "biswapFeeDenominator">>

\* the constructor's defaults
DefaultFeeParameters ==
    [pancakeSwapFeeNumerator |-> 25, pancakeSwapFeeDenominator |-> 9975,
     biswapFeeNumerator |-> 20, biswapFeeDenominator |-> 9980]

\* what a read of the contract may return
FeeValues == {30, 10000}

\* "this.feeParameters = { pancakeSwapFeeNumerator, ... }"
FeeRecord(reads) == [f \in DOMAIN DefaultFeeParameters |->
                        reads[CHOOSE k \in 1 .. 4 : FeeFields[k] = f]]

\* the cache while read k has returned v and later reads are outstanding:
\* the values are held in locals
CacheWrittenPerRead(fp, k, v) == [fp EXCEPT ![FeeFields[k]] = v]
CacheAfterRead(fp, k, v) == fp

InitFee ==
    /\ feeParameters = DefaultFeeParameters
    /\ feePc = 0
    /\ feeReads = <<>>
    /\ feeBefore = DefaultFeeParameters
    /\ feeOutcome = "none"

\* updateFeeParameters() is called and issues its first read
UpdateFeeParameters ==
    /\ feePc = 0
    /\ feePc' = 1
    /\ feeReads' = <<>>
    /\ feeBefore' = feeParameters
    /\ feeOutcome' = "running"
    /\ UNCHANGED feeParameters
    /\ UNCHANGED <<coordVars, poolVars, scanVars, gasVars, quoteVars,
                   netGasVars, configVars, tailVars>>

\* read feePc returns v; after the fourth the cache is replaced
FeeReadReturns(v) ==
    /\ feePc > 0
    /\ feeReads' = Append(feeReads, v)
    /\ IF feePc < 4
       THEN /\ feePc' = feePc + 1
            /\ feeParameters' = CacheAfterRead(feeParameters, feePc, v)
            /\ UNCHANGED feeOutcome
       ELSE /\ feePc' = 0
            /\ feeParameters' = FeeRecord(feeReads')
            /\ feeOutcome' = "ok"
    /\ UNCHANGED feeBefore
    /\ UNCHANGED <<coordVars, poolVars, scanVars, gasVars, quoteVars,
                   netGasVars, configVars, tailVars>>

\* read feePc rejects: the catch logs and the refresh returns
FeeReadFails ==
    /\ feePc > 0
    /\ feePc' = 0
    /\ feeOutcome' = "failed"
    /\ UNCHANGED <<feeParameters, feeReads, feeBefore>>
    /\ UNCHANGED <<coordVars, poolVars, scanVars, gasVars, quoteVars,
                   netGasVars, configVars, tailVars>>

NextFee ==
    \/ UpdateFeeParameters
    \/ \E v \in FeeValues : FeeReadReturns(v)
    \/ FeeReadFails

(***************************************************************************)
(* NetworkService.getGasPrice                                              *)
(***************************************************************************)
\* prices are held in gwei; getGasPrice() returns hundredths of a gwei
\* (the code works in wei, where price * 110 / 100 loses nothing)
UnitsPerGwei == 100
\* floor(multiplier * 100) for the multipliers 1, 1.1 and 1.25
Multipliers == {100, 110, 125}

\* "if (multiplier > 1) return price.mul(Math.floor(multiplier * 100)).div(100)"
Buffered(price, m100) ==
    IF m100 > 100 THEN (price * UnitsPerGwei * m100) \div 100
                  ELSE price * UnitsPerGwei

\* "catch: return this.networkHealth.gasPrice"
Stored(price, m100) == price * UnitsPerGwei

\* "Date.now() - this.networkHealth.lastCheckTime < 2 * 60 * 1000"
CacheFresh(nh, t) == t - nh.lastCheckTime < CacheMinutes

InitNetGas ==
    /\ gPc = "idle"
    /\ gMultiplier = 100
    /\ lastGasSampleAt = 0
    /\ lastGas = [path |-> "none", m100 |-> 100, price |-> 0, value |-> 0]

\* checkNetworkHealth() runs (from start(), the cron job or a cycle) and
\* gets its sample
HealthSampled(s) ==
    /\ s \in Samples(networkHealth)
    /\ networkHealth' = CheckNetworkHealth(networkHealth, s, clock)
    /\ Observed(s)
    /\ UNCHANGED <<botStarted, isRunning, pc, clock, executionEnabled,
                   cycleNetHealthy, cyclePaused, lastTrigger, lastExit,
                   lastRecheckAt>>
    /\ UNCHANGED <<poolVars, scanVars, gasVars, quoteVars, netGasVars,
                   feeVars, configVars, tailVars>>

\* getGasPrice(multiplier): returns from the cache, or asks the provider
GetGasPrice(m100) ==
    /\ gPc = "idle"
    /\ IF CacheFresh(networkHealth, clock)
       THEN /\ lastGas' = [path |-> "cache", m100 |-> m100,
                           price |-> networkHealth.gasPrice,
                           value |-> Buffered(networkHealth.gasPrice, m100)]
            /\ UNCHANGED <<gPc, gMultiplier>>
       ELSE /\ gPc' = "sampling"
            /\ gMultiplier' = m100
            /\ UNCHANGED lastGas
    /\ UNCHANGED lastGasSampleAt
    /\ UNCHANGED <<coordVars, poolVars, scanVars, gasVars, quoteVars, feeVars,
                   configVars, tailVars>>

\* provider.getGasPrice() settles inside getGasPrice(): the sample is
\* stored and returned, or the catch returns the stored price
GasPriceSampled(s) ==
    /\ gPc = "sampling"
    /\ gPc' = "idle"
    /\ IF s = SampleFail
       THEN /\ lastGas' = [path |-> "failed", m100 |-> gMultiplier,
                           price |-> networkHealth.gasPrice,
                           value |-> Stored(networkHealth.gasPrice,
                                            gMultiplier)]
            /\ UNCHANGED <<networkHealth, lastGasSampleAt>>
       ELSE /\ networkHealth' = [networkHealth EXCEPT !.gasPrice = s]
            /\ lastGasSampleAt' = clock
            /\ lastGas' = [path |-> "fresh", m100 |-> gMultiplier,
                           price |-> s, value |-> Buffered(s, gMultiplier)]
    /\ UNCHANGED gMultiplier
    /\ UNCHANGED <<botStarted, isRunning, pc, clock, executionEnabled,
                   cycleNetHealthy, cyclePaused, lastTrigger, lastExit,
                   consecFails, lastRecheckAt>>
    /\ UNCHANGED <<poolVars, scanVars, gasVars, quoteVars, feeVars,
                   configVars, tailVars>>

\* a minute passes
MinuteTick ==
    /\ clock < StartClock + MaxMinutes
    /\ clock' = clock + 1
    /\ UNCHANGED <<botStarted, isRunning, pc, networkHealth, executionEnabled,
                   cycleNetHealthy, cyclePaused, lastTrigger, lastExit,
                   consecFails, lastRecheckAt>>
    /\ UNCHANGED <<poolVars, scanVars, gasVars, quoteVars, netGasVars,
                   feeVars, configVars, tailVars>>

NextNetGas ==
    \/ \E s \in GasSamples \cup {SampleFail} : HealthSampled(s)
    \/ \E m100 \in Multipliers : GetGasPrice(m100)
    \/ \E s \in GasSamples \cup {SampleFail} : GasPriceSampled(s)
    \/ MinuteTick

(***************************************************************************)
(* ProfitCalculator                                                        *)
(***************************************************************************)
\* the oracle call failed or returned a malformed result
OracleFail == 0 - 1
\* networkService.getGasPrice() left no usable price (gasPrice.mul throws)
GasFail == 0 - 1
\* priceService.convertToUSD() threw
ConvFail == 0 - 1

\* "const netProfitUSD = profitUSD - gasCostUSD"
GrossProfit(profitUSD, gasCostUSD) == profitUSD
NetProfit(profitUSD, gasCostUSD) == profitUSD - gasCostUSD

\* the thresholds the environment file may configure
Thresholds == {0, 1, 2}

\* the threshold of the environment file as shipped
InitConfig == minProfitPercentage = MIN_PROFIT_PERCENTAGE

\* calculateProfit(): amounts are in whole value units, profitPercentage in
\* hundredths of a percent (rounded down); the catch block yields the
\* result with the error
CalculateProfit(userProfit, loanAmount, price, gasCostUSD) ==
    IF userProfit = OracleFail \/ gasCostUSD = GasFail \/ price = ConvFail
    THEN [error |-> TRUE, isProfit |-> FALSE, profitPercentage |-> 0,
          profitUSD |-> 0, gasCostUSD |-> 0, netProfitUSD |-> 0,
          loanAmountUSD |-> 0]
    ELSE LET profitUSD == userProfit * price
             loanAmountUSD == loanAmount * price
             netProfitUSD == NetProfit(profitUSD, gasCostUSD)
             profitPercentage ==
                 IF loanAmountUSD > 0
                 THEN (netProfitUSD * 100 * 100) \div loanAmountUSD
                 ELSE 0
         IN  [error |-> FALSE,
              isProfit |-> profitPercentage >= minProfitPercentage * 100,
              profitPercentage |-> profitPercentage,
              profitUSD |-> profitUSD,
              gasCostUSD |-> gasCostUSD,
              netProfitUSD |-> netProfitUSD,
              loanAmountUSD |-> loanAmountUSD]

\* isProfitable()
IsProfitableUnlessError(profitResult) == ~profitResult.error
IsProfitableAlways(profitResult) == TRUE
IsProfitable(profitResult) ==
    IF profitResult.error
    THEN FALSE
    ELSE /\ profitResult.isProfit
         /\ profitResult.profitPercentage >= minProfitPercentage * 100

(***************************************************************************)
(* ArbitrageChecker                                                        *)
(***************************************************************************)
NoBest == [found |-> FALSE]
\* calculateProfit() was not called for the last swept amount
NoEval == [called |-> FALSE]

\* what calculateSwapOutputs() can return: { success: false }, or the three
\* hop outputs (no liquidity, a dust amount, or a regular amount)
QuoteOutputs == {0, 1, DustFreeOutput}
SwapFailed == <<>>
SwapResults == {SwapFailed} \cup (QuoteOutputs \X QuoteOutputs \X QuoteOutputs)

\* the oracle's expectedUserProfit, in units of the first token
UserProfits == {0, 10, 30, 58}
\* getTokenPriceUSD(): 0 is "unpriced"
TokenPrices == {0, 1}

\* what one evaluation can meet: the oracle's answer and the token price
\* with the gas cost known, or one of the three calls failing
EvalInputs ==
    (UserProfits \X TokenPrices \X {GasCostUSD})
        \cup {<<OracleFail, 1, GasCostUSD>>, <<10, ConvFail, GasCostUSD>>,
              <<10, 1, GasFail>>}

\* checkTriangularPrice(): null when a quote of the cycle fails
CycleFail == 0 - 1
\* checkTriangularPrice(): the output of the cycle for one token in
CycleOutputs == {0, 94, 95, 97, 100}

\* testAmounts, in units of the first token
LoanAmount(k) == k * LoanUnit

\* checkPriceGap(): |pancake - biswap| * 100 / pancake in BigNumber
\* arithmetic, 0 when a cycle quote failed or PancakeSwap's output is zero
CheckPriceGap(pancakePrice, biswapPrice) ==
    IF pancakePrice # CycleFail /\ biswapPrice # CycleFail /\ pancakePrice # 0
    THEN LET priceDiff == IF pancakePrice >= biswapPrice
                          THEN pancakePrice - biswapPrice
                          ELSE biswapPrice - pancakePrice
         IN  (priceDiff * 100) \div pancakePrice
    ELSE 0

\* "if (priceGap >= 5.0)"
ReversesAbove(gap) == gap > ReverseGapPercent
Reverses(gap) == gap >= ReverseGapPercent

\* "if (priceGap >= 5.0) direction = !direction"
DirectionAfterGap(requested, gap) ==
    IF Reverses(gap) THEN ~requested ELSE requested

\* "result.amountOutN.mul(99).div(100)"
MinAmountOutNoTolerance(amountOut) == amountOut
MinAmountOut(amountOut) == (amountOut * 99) \div 100

\* "minAmountOut1.isZero() || minAmountOut2.isZero() || minAmountOut3.isZero()"
FirstMinIsZero(mins) == mins[1] = 0
AnyMinIsZero(mins) == mins[1] = 0 \/ mins[2] = 0 \/ mins[3] = 0

\* minAmountOut1, minAmountOut2, minAmountOut3
MinAmounts(result) ==
    <<MinAmountOut(result[1]), MinAmountOut(result[2]),
      MinAmountOut(result[3])>>

\* the loop body reaches calculateProfit() for this swap result
Evaluated(result) ==
    result # SwapFailed /\ ~AnyMinIsZero(MinAmounts(result))

\* what the sweep has seen of one amount
SweptEntry(result, loanAmount, profitResult) ==
    IF Evaluated(result) /\ IsProfitable(profitResult)
    THEN [cleared |-> TRUE, loanAmount |-> loanAmount,
          minAmountsOut |-> MinAmounts(result), profitResult |-> profitResult]
    ELSE [cleared |-> FALSE]

\* "isProfitable(profitResult) && (!bestProfitResult || profitResult
\*  .profitPercentage > bestProfitResult.profitPercentage)"
IsNewBestOrEqual(profitResult, b) ==
    /\ IsProfitable(profitResult)
    /\ (~b.found \/
        profitResult.profitPercentage >= b.profitResult.profitPercentage)
IsNewBest(profitResult, b) ==
    /\ IsProfitable(profitResult)
    /\ (~b.found \/
        profitResult.profitPercentage > b.profitResult.profitPercentage)

\* opportunities.sort((a, b) => b.profitPercentage - a.profitPercentage):
\* a stable sort into non-increasing order
RECURSIVE InsertDesc(_, _)
InsertDesc(o, sorted) ==
    IF sorted = <<>> THEN <<o>>
    ELSE IF o.profitResult.profitPercentage
               > Head(sorted).profitResult.profitPercentage
         THEN <<o>> \o sorted
         ELSE <<Head(sorted)>> \o InsertDesc(o, Tail(sorted))

Unsorted(list) == list
RECURSIVE SortDesc(_)
SortDesc(list) ==
    IF list = <<>> THEN <<>>
    ELSE InsertDesc(list[Len(list)], SortDesc(SubSeq(list, 1, Len(list) - 1)))

\* amounts are BigNumbers of base units; a token of two decimals has
\* BaseUnitsPerToken of them
BaseUnitsPerToken == 100
\* the outputs a hop may quote, in base units: nothing, one base unit, half
\* a token, and 90, 95 and 102 tokens
QuotedAmounts ==
    {0, 1, 50, 90 * BaseUnitsPerToken, 95 * BaseUnitsPerToken,
     102 * BaseUnitsPerToken}

\* calculateSwapOutputs() has returned three hop outputs
InitMin ==
    /\ mPc = "quoted"
    /\ mQuoted \in QuotedAmounts \X QuotedAmounts \X QuotedAmounts
    /\ mMins = <<>>
MinIdle ==
    /\ mPc = "quoted"
    /\ mQuoted = <<0, 0, 0>>
    /\ mMins = <<>>

\* the loop body from the minimums to the zero check
DeriveMinimums ==
    /\ mPc = "quoted"
    /\ mMins' = MinAmounts(mQuoted)
    /\ mPc' = IF AnyMinIsZero(mMins') THEN "skipped" ELSE "evaluate"
    /\ UNCHANGED mQuoted
    /\ UNCHANGED <<coordVars, poolVars, scanVars, gasVars, quoteVars,
                   netGasVars, feeVars, configVars, cadenceVars, passVars,
                   lateVars>>

NextMin == DeriveMinimums

\* pairConfig.tokens: the keys, in order
TokenKeys == <<"A", "B", "C">>

\* checkArbitrageOpportunities() calls checkTriangularArbitrage(pair, true)
\* and then checkTriangularArbitrage(pair, false); each calls
\* checkArbitrageLoop() once per rotation
PassesPerTriple == 2 * Len(TokenKeys)
\* the direction argument of the n-th call
RequestedAt(n) == n <= Len(TokenKeys)
\* the rotation of the n-th call
RotationAt(n) == ((n - 1) % Len(TokenKeys)) + 1

InitPasses == passes = <<>>

\* one call of checkArbitrageLoop() samples the price gap and settles the
\* direction it simulates
LoopSettlesDirection(pancakePrice, biswapPrice) ==
    /\ Len(passes) < PassesPerTriple
    /\ LET gap == CheckPriceGap(pancakePrice, biswapPrice)
       IN  passes' =
              Append(passes,
                     [gap |-> gap,
                      direction |->
                          DirectionAfterGap(RequestedAt(Len(passes) + 1),
                                            gap)])
    /\ UNCHANGED <<coordVars, poolVars, scanVars, gasVars, quoteVars,
                   netGasVars, feeVars, configVars, minVars, cadenceVars,
                   lateVars>>

NextPasses ==
    \E pancakePrice \in CycleOutputs \cup {CycleFail},
       biswapPrice \in CycleOutputs \cup {CycleFail} :
       LoopSettlesDirection(pancakePrice, biswapPrice)

\* checkTriangularArbitrage(): the tokens of the n-th call of
\* checkArbitrageLoop(), startToken, midToken, endToken
RotationTokens(n) ==
    LET i == (n - 1) % Len(TokenKeys)
    IN  <<TokenKeys[i + 1], TokenKeys[((i + 1) % Len(TokenKeys)) + 1],
          TokenKeys[((i + 2) % Len(TokenKeys)) + 1]>>

\* no address: a key that is missing, or one whose address is null
NoPair == "none"

\* pairConfig.pancakeswapPairs and pairConfig.biswapPairs: the keys, split
\* at '-', in order, with their addresses
pancakeswapPairs ==
    <<[key |-> <<"A", "B">>, address |-> "pancake:A-B"],
      [key |-> <<"B", "C">>, address |-> NoPair],
      [key |-> <<"C", "A">>, address |-> "pancake:C-A"]>>
biswapPairs ==
    <<[key |-> <<"B", "A">>, address |-> "biswap:B-A"],
      [key |-> <<"B", "C">>, address |-> "biswap:B-C"]>>

\* "if (direction) { for (const key in pancakePairs) ... } else { for
\*  (const key in biswapPairs) ... }"
LoanTableRequested(dir, requested) ==
    IF requested THEN pancakeswapPairs ELSE biswapPairs
LoanTable(dir, requested) == IF dir THEN pancakeswapPairs ELSE biswapPairs

\* the address of the first key naming tokenA and tokenB, in either order
RECURSIVE FindPair(_, _, _)
FindPair(table, tokenA, tokenB) ==
    IF table = <<>> THEN NoPair
    ELSE IF \/ Head(table).key = <<tokenA, tokenB>>
            \/ Head(table).key = <<tokenB, tokenA>>
         THEN Head(table).address
         ELSE FindPair(Tail(table), tokenA, tokenB)

\* the catch block of checkArbitrageLoop(): where the scan stands after an
\* error escaped the body of one call
Rethrown == "aborted"
AfterLoopError == "begin"

InitScan ==
    /\ scanPc = "idle"
    /\ loopNo = 1
    /\ amtNo = 1
    /\ originalDirection = TRUE
    /\ direction = TRUE
    /\ priceGap = 0
    /\ best = NoBest
    /\ opportunities = <<>>
    /\ submitted = <<>>
    /\ lastCandidate = <<>>
    /\ lastEval = NoEval
    /\ lastOutcome = "none"
    /\ flashLoanPair = NoPair
    /\ swept = <<>>

\* checkArbitrageOpportunities() is called: the first checkArbitrageLoop()
\* is about to begin
StartScan ==
    /\ scanPc = "idle"
    /\ scanPc' = "begin"
    /\ UNCHANGED <<loopNo, amtNo, originalDirection, direction, priceGap, best,
                   opportunities, submitted, lastCandidate, lastEval,
                   lastOutcome, flashLoanPair, swept>>
    /\ UNCHANGED <<coordVars, poolVars, gasVars, restVars>>

\* checkArbitrageLoop() up to its sweep: the token details are read (a
\* failed read yields the default details), the price gap is measured, the
\* direction is reversed when the gap is large, and the flash-loan pair is
\* looked up; without a pair the call returns null
BeginLoop(requested, pancakePrice, biswapPrice) ==
    /\ scanPc = "begin"
    /\ loopNo <= MaxLoops
    /\ originalDirection' = requested
    /\ priceGap' = CheckPriceGap(pancakePrice, biswapPrice)
    /\ direction' = DirectionAfterGap(requested, priceGap')
    /\ flashLoanPair' =
          FindPair(LoanTable(direction', requested),
                   RotationTokens(loopNo)[1], RotationTokens(loopNo)[2])
    /\ IF flashLoanPair' = NoPair
       THEN /\ scanPc' = "begin"
            /\ loopNo' = loopNo + 1
            /\ lastOutcome' = "noPair"
       ELSE /\ scanPc' = "sweep"
            /\ lastOutcome' = "none"
            /\ UNCHANGED loopNo
    /\ amtNo' = 1
    /\ best' = NoBest
    /\ lastCandidate' = <<>>
    /\ lastEval' = NoEval
    /\ swept' = <<>>
    /\ UNCHANGED <<opportunities, submitted>>
    /\ UNCHANGED <<coordVars, poolVars, gasVars, restVars>>

\* one iteration of "for (const loanAmount of loanAmounts)"
SweepAmount(result, userProfit, price, gasCostUSD) ==
    /\ scanPc = "sweep"
    /\ amtNo <= NumAmounts
    /\ amtNo' = amtNo + 1
    /\ IF result = SwapFailed
       THEN /\ lastOutcome' = "quoteFailed"
            /\ lastCandidate' = <<>>
            /\ lastEval' = NoEval
            /\ UNCHANGED best
       ELSE LET mins == MinAmounts(result)
                profitResult == CalculateProfit(userProfit, LoanAmount(amtNo),
                                                price, gasCostUSD)
            IN  IF AnyMinIsZero(mins)
                THEN /\ lastOutcome' = "zeroMin"
                     /\ lastCandidate' = <<>>
                     /\ lastEval' = NoEval
                     /\ UNCHANGED best
                ELSE /\ lastCandidate' = mins
                     /\ lastEval' = [called |-> TRUE,
                                     userProfit |-> userProfit,
                                     loanAmount |-> LoanAmount(amtNo),
                                     price |-> price,
                                     gasCostUSD |-> gasCostUSD,
                                     profitResult |-> profitResult]
                     /\ IF IsNewBest(profitResult, best)
                        THEN /\ best' = [found |-> TRUE,
                                         loanAmount |-> LoanAmount(amtNo),
                                         minAmountsOut |-> mins,
                                         profitResult |-> profitResult]
                             /\ lastOutcome' = "best"
                        ELSE /\ UNCHANGED best
                             /\ lastOutcome' =
                                   IF profitResult.error THEN "oracleFailed"
                                   ELSE IF profitResult.profitPercentage
                                             < minProfitPercentage * 100
                                        THEN "belowThreshold"
                                        ELSE "notBetter"
    /\ swept' = Append(swept, SweptEntry(result, LoanAmount(amtNo),
                                         CalculateProfit(userProfit,
                                                         LoanAmount(amtNo),
                                                         price, gasCostUSD)))
    /\ UNCHANGED <<scanPc, loopNo, originalDirection, direction, priceGap,
                   opportunities, submitted, flashLoanPair>>
    /\ UNCHANGED <<coordVars, poolVars, gasVars, restVars>>

\* an error escapes the body of checkArbitrageLoop() (parseUnits on a test
\* amount, formatting a log line): its catch block logs and returns null,
\* and the next call begins
LoopThrows ==
    /\ scanPc = "sweep"
    /\ loopNo <= MaxLoops
    /\ scanPc' = AfterLoopError
    /\ loopNo' = loopNo + 1
    /\ amtNo' = 1
    /\ best' = NoBest
    /\ lastCandidate' = <<>>
    /\ lastEval' = NoEval
    /\ lastOutcome' = "loopFailed"
    /\ swept' = <<>>
    /\ UNCHANGED <<originalDirection, direction, priceGap, opportunities,
                   submitted, flashLoanPair>>
    /\ UNCHANGED <<coordVars, poolVars, gasVars, restVars>>

\* the sweep of one checkArbitrageLoop() is over: it returns the best
\* candidate if there is one, and the next call begins
EndLoop ==
    /\ scanPc = "sweep"
    /\ amtNo > NumAmounts
    /\ loopNo <= MaxLoops
    /\ opportunities' =
          IF best.found /\ IsProfitable(best.profitResult)
          THEN Append(opportunities,
                      [tokenA |-> RotationTokens(loopNo)[1],
                       tokenB |-> RotationTokens(loopNo)[2],
                       flashLoanPair |-> flashLoanPair,
                       loanAmount |-> best.loanAmount,
                       minAmountsOut |-> best.minAmountsOut,
                       profitResult |-> best.profitResult])
          ELSE opportunities
    /\ scanPc' = "begin"
    /\ loopNo' = loopNo + 1
    /\ amtNo' = 1
    /\ best' = NoBest
    /\ lastCandidate' = <<>>
    /\ lastEval' = NoEval
    /\ lastOutcome' = "none"
    /\ swept' = <<>>
    /\ UNCHANGED <<originalDirection, direction, priceGap, submitted,
                   flashLoanPair>>
    /\ UNCHANGED <<coordVars, poolVars, gasVars, restVars>>

\* every checkArbitrageLoop() has returned: the list is sorted and returned
EndScan ==
    /\ scanPc = "begin"
    /\ loopNo > MaxLoops
    /\ scanPc' = "done"
    /\ opportunities' = SortDesc(opportunities)
    /\ UNCHANGED <<loopNo, amtNo, originalDirection, direction, priceGap, best,
                   submitted, lastCandidate, lastEval, lastOutcome,
                   flashLoanPair, swept>>
    /\ UNCHANGED <<coordVars, poolVars, gasVars, restVars>>

\* checkAndExecuteArbitrage() on the returned list: it sorts the list again
\* and, when execution is enabled, hands the first opportunity to the
\* executor
ActOnList ==
    /\ scanPc = "done"
    /\ scanPc' = "acted"
    /\ opportunities' = SortDesc(opportunities)
    /\ submitted' = IF opportunities # <<>> /\ executionEnabled
                    THEN <<opportunities'[1]>>
                    ELSE <<>>
    /\ UNCHANGED <<loopNo, amtNo, originalDirection, direction, priceGap, best,
                   lastCandidate, lastEval, lastOutcome, flashLoanPair,
                   swept>>
    /\ UNCHANGED <<coordVars, poolVars, gasVars, restVars>>

NextScan ==
    \/ StartScan
    \/ \E requested \in BOOLEAN,
          pancakePrice \in CycleOutputs \cup {CycleFail},
          biswapPrice \in CycleOutputs \cup {CycleFail} :
          BeginLoop(requested, pancakePrice, biswapPrice)
    \/ \E result \in SwapResults :
          \E in \in IF Evaluated(result)
                    THEN EvalInputs ELSE {<<0, 0, GasCostUSD>>} :
             SweepAmount(result, in[1], in[2], in[3])
    \/ LoopThrows
    \/ EndLoop
    \/ EndScan
    \/ ActOnList

(***************************************************************************)
(* Specifications                                                          *)
(***************************************************************************)
\* the coordinator before start()
CoordIdle ==
    /\ InitCoord
    /\ executionEnabled = FALSE

\* a pool of one endpoint, just constructed
PoolIdle ==
    /\ InitPool
    /\ numProviders = 1

\* no call of getGasPrice() is made
GasIdle ==
    /\ InitGas
    /\ retryCount = 1

(***************************************************************************)
(* RPCManager.getGasPrice() called by two asynchronous callers             *)
(***************************************************************************)
Callers == {1, 2}
NoCaller == 0

InitCallers ==
    /\ held = [c \in Callers |-> NoIdx]
    /\ overtaken = [c \in Callers |-> FALSE]
    /\ lastReport = [caller |-> NoCaller, used |-> NoIdx, landed |-> NoIdx,
                     overtaken |-> FALSE]

\* "const provider = await this.getProvider()": caller c acquires an
\* endpoint and suspends on provider.getGasPrice()
CallerAcquires(c) ==
    /\ held[c] = NoIdx
    /\ DoGetProvider
    /\ held' = [held EXCEPT ![c] = lastCall'.idx]
    /\ overtaken' =
          [d \in Callers |->
              IF d = c THEN FALSE
              ELSE overtaken[d]
                     \/ (held[d] # NoIdx /\ currentIndex' # held[d])]
    /\ UNCHANGED lastReport
    /\ UNCHANGED <<coordVars, scanVars, gasVars, quoteVars, netGasVars,
                   feeVars, configVars, minVars, cadenceVars, passVars,
                   execVars>>

\* the race of caller c settles: "this.reportSuccess()" after an answer,
\* "this.reportFailure()" in the catch block; neither is told the endpoint
CallerCallReturns(c, ok) ==
    /\ held[c] # NoIdx
    /\ IF ok
       THEN DoReportSuccess
       ELSE /\ SumTo(failCounts, numProviders) < MaxFailCount
            /\ MarksUnhealthy(failCounts[currentIndex] + 1) =>
                   SumTo(cooldownTimers, numProviders) < MaxTimers
            /\ DoReportFailure
    /\ lastReport' = [caller |-> c, used |-> held[c],
                      landed |-> lastCall'.idx, overtaken |-> overtaken[c]]
    /\ held' = [held EXCEPT ![c] = NoIdx]
    /\ overtaken' = [overtaken EXCEPT ![c] = FALSE]
    /\ UNCHANGED <<coordVars, scanVars, gasVars, quoteVars, netGasVars,
                   feeVars, configVars, minVars, cadenceVars, passVars,
                   execVars>>

NextCallers ==
    \/ \E c \in Callers : CallerAcquires(c)
    \/ \E c \in Callers, ok \in BOOLEAN : CallerCallReturns(c, ok)
    \/ \E x \in Idx : CooldownExpires(x)
    \/ PoolTick

(***************************************************************************)
(* ArbitrageExecutor.executeArbitrage                                      *)
(***************************************************************************)
\* the opportunities executeArbitrage() may be handed: the loan pair, the
\* loan amount and the arbitrage data, each well-formed or not
PairInputs == {"address", "null", "notAddress"}
AmountInputs == {"positive", "zero", "missing"}
DataInputs == {"ok", "missing", "badPath"}
OpportunityInputs ==
    [flashLoanPair : PairInputs, loanAmount : AmountInputs,
     arbitrageData : DataInputs]
NoOpportunity ==
    [flashLoanPair |-> "null", loanAmount |-> "missing",
     arbitrageData |-> "missing"]

\* the parameter validation: the pair address, the amount, the data and
\* its three paths
ValidParameters(opp) ==
    /\ opp.flashLoanPair = "address"
    /\ opp.loanAmount = "positive"
    /\ opp.arbitrageData = "ok"

\* what the authorization mapping of the contract can answer
AuthReplies == {"yes", "no", "error"}
\* isPairAuthorized(): an error while reading counts as not authorized
IsPairAuthorized(reply) == reply = "yes"

\* how authorizePair() can end: the wallet is not the owner, the
\* transaction is rejected, it is sent and fails, or it is mined
AuthOutcomes == {"notOwner", "sendFailed", "waitFailed", "mined"}
AuthorizePair(outcome) == outcome = "mined"

\* how "await tx.wait()" of the flash loan can end
Receipts == {"success", "failed", "error"}

InitExec ==
    /\ ePc = "idle"
    /\ eOpp = NoOpportunity
    /\ eAuthReply = "none"
    /\ eAuthOutcome = "none"
    /\ ePausedReply = "none"
    /\ eSubmitted = <<>>
    /\ eResult = "none"

\* the variables an executor step leaves alone
ExecFrame ==
    UNCHANGED <<coordVars, poolVars, scanVars, gasVars, quoteVars,
                netGasVars, feeVars, configVars, minVars, cadenceVars,
                passVars, callerVars>>

\* "return false" or "return receipt.status === 1"
ExecReturn(value) ==
    /\ ePc' = "returned"
    /\ eResult' = IF value THEN "true" ELSE "false"

\* executeArbitrage(opportunity) is called by the cycle that is at its
\* execution step: the parameters are validated and isPairAuthorized() is
\* called
ExecBegin(opp) ==
    /\ \E p \in Cycles : pc[p] = "execute"
    /\ ePc = "idle"
    /\ opp \in OpportunityInputs
    /\ eOpp' = opp
    /\ eAuthReply' = "none"
    /\ eAuthOutcome' = "none"
    /\ ePausedReply' = "none"
    /\ eSubmitted' = <<>>
    /\ IF ValidParameters(opp)
       THEN ePc' = "authCheck" /\ eResult' = "none"
       ELSE ExecReturn(FALSE)
    /\ ExecFrame

\* isPairAuthorized() returns: go on to the pause state, or try to
\* authorize
ExecAuthCheckReturns(reply) ==
    /\ ePc = "authCheck"
    /\ reply \in AuthReplies
    /\ eAuthReply' = reply
    /\ ePc' = IF IsPairAuthorized(reply) THEN "pauseRead" ELSE "authorize"
    /\ UNCHANGED <<eOpp, eAuthOutcome, ePausedReply, eSubmitted, eResult>>
    /\ ExecFrame

\* authorizePair() returns
ExecAuthorizeReturns(outcome) ==
    /\ ePc = "authorize"
    /\ outcome \in AuthOutcomes
    /\ eAuthOutcome' = outcome
    /\ IF AuthorizePair(outcome)
       THEN ePc' = "pauseRead" /\ UNCHANGED eResult
       ELSE ExecReturn(FALSE)
    /\ UNCHANGED <<eOpp, eAuthReply, ePausedReply, eSubmitted>>
    /\ ExecFrame

\* isContractPaused() returns
ExecPauseReturns(reply) ==
    /\ ePc = "pauseRead"
    /\ reply \in PausedReplies
    /\ ePausedReply' = reply
    /\ IF IsContractPaused(reply)
       THEN ExecReturn(FALSE)
       ELSE ePc' = "gasPrice" /\ UNCHANGED eResult
    /\ UNCHANGED <<eOpp, eAuthReply, eAuthOutcome, eSubmitted>>
    /\ ExecFrame

\* networkService.getGasPrice(1.1) returns, or throws into the catch
ExecGasPriceReturns(ok) ==
    /\ ePc = "gasPrice"
    /\ IF ok
       THEN ePc' = "send" /\ UNCHANGED eResult
       ELSE ExecReturn(FALSE)
    /\ UNCHANGED <<eOpp, eAuthReply, eAuthOutcome, ePausedReply,
                   eSubmitted>>
    /\ ExecFrame

\* executeFlashLoan() sends the transaction, or throws into the catch
ExecSendReturns(ok) ==
    /\ ePc = "send"
    /\ IF ok
       THEN /\ eSubmitted' = Append(eSubmitted, eOpp)
            /\ ePc' = "mined"
            /\ UNCHANGED eResult
       ELSE /\ ExecReturn(FALSE)
            /\ UNCHANGED eSubmitted
    /\ UNCHANGED <<eOpp, eAuthReply, eAuthOutcome, ePausedReply>>
    /\ ExecFrame

\* "await tx.wait()" of the flash loan returns its receipt, or throws into
\* the catch
ExecMined(receipt) ==
    /\ ePc = "mined"
    /\ receipt \in Receipts
    /\ ExecReturn(receipt = "success")
    /\ UNCHANGED <<eOpp, eAuthReply, eAuthOutcome, ePausedReply,
                   eSubmitted>>
    /\ ExecFrame

\* the cycle gets the value executeArbitrage() returned and ends
ExecuteFinishes(p) ==
    /\ ePc = "returned"
    /\ DoExecuteReturns(p)
    /\ ePc' = "idle"
    /\ UNCHANGED <<eOpp, eAuthReply, eAuthOutcome, ePausedReply,
                   eSubmitted, eResult>>
    /\ UNCHANGED <<poolVars, scanVars, gasVars, quoteVars, netGasVars,
                   feeVars, configVars, minVars, cadenceVars, passVars,
                   callerVars>>

\* the cycles with the executor in place of the step "execute"
NextExec ==
    \/ \E s \in GasSamples \cup {SampleFail} : Start(s)
    \/ \E p \in Scheduled : TriggerSkipped(p)
    \/ \E p \in Scheduled : TriggerStart(p)
    \/ \E p \in Scheduled, s \in GasSamples \cup {SampleFail} :
          HealthCheckReturns(p, s)
    \/ \E p \in Scheduled : NetVerdict(p)
    \/ \E p \in Cycles, reply \in PausedReplies : PauseReturns(p, reply)
    \/ \E p \in Cycles, found \in BOOLEAN : ScanReturns(p, found)
    \/ \E opp \in OpportunityInputs : ExecBegin(opp)
    \/ \E reply \in AuthReplies : ExecAuthCheckReturns(reply)
    \/ \E outcome \in AuthOutcomes : ExecAuthorizeReturns(outcome)
    \/ \E reply \in PausedReplies : ExecPauseReturns(reply)
    \/ \E ok \in BOOLEAN : ExecGasPriceReturns(ok)
    \/ \E ok \in BOOLEAN : ExecSendReturns(ok)
    \/ \E receipt \in Receipts : ExecMined(receipt)
    \/ \E p \in Cycles : ExecuteFinishes(p)

\* the parts that follow the passes, before anything is asked of them
LateIdle == InitCallers /\ InitExec

\* the parts that follow the configuration, before anything is asked of
\* them
TailIdle == MinIdle /\ CadenceIdle /\ InitPasses /\ LateIdle
RestIdle == InitQuote /\ InitNetGas /\ InitFee /\ InitConfig /\ TailIdle

InitSpecCoord == InitCoord /\ PoolIdle /\ InitScan /\ GasIdle /\ RestIdle
SpecCoord == InitSpecCoord /\ [][NextCoord]_vars

\* what the scheduling guarantees: the cron jobs keep firing and a
\* continuation that waits for no network call runs.  Nothing bounds the
\* time a network call takes: no await of a cycle carries a timeout
CoordFairness ==
    \A p \in Scheduled :
        /\ WF_vars(TriggerStart(p))
        /\ WF_vars(TriggerSkipped(p))
        /\ WF_vars(NetVerdict(p))
SpecCoordFair == InitSpecCoord /\ [][NextCoord]_vars /\ CoordFairness

InitSpecPool == CoordIdle /\ InitPool /\ InitScan /\ GasIdle /\ RestIdle
SpecPool == InitSpecPool /\ [][NextPool]_vars

InitSpecScan == InitCoord /\ PoolIdle /\ InitScan /\ GasIdle /\ RestIdle
SpecScan == InitSpecScan /\ [][NextScan]_vars

\* the scan under any threshold the environment file may configure
InitSpecScanConfigured ==
    /\ InitCoord /\ PoolIdle /\ InitScan /\ GasIdle
    /\ InitQuote /\ InitNetGas /\ InitFee /\ TailIdle
    /\ minProfitPercentage \in Thresholds
SpecScanConfigured == InitSpecScanConfigured /\ [][NextScan]_vars

InitSpecGas == CoordIdle /\ InitPool /\ InitScan /\ InitGas /\ RestIdle
SpecGas == InitSpecGas /\ [][NextGas]_vars

InitSpecQuote ==
    /\ CoordIdle /\ PoolIdle /\ InitScan /\ GasIdle
    /\ InitQuote /\ InitNetGas /\ InitFee /\ InitConfig /\ TailIdle
SpecQuote == InitSpecQuote /\ [][NextQuote]_vars

InitSpecNetGas == CoordIdle /\ PoolIdle /\ InitScan /\ GasIdle /\ RestIdle
SpecNetGas == InitSpecNetGas /\ [][NextNetGas]_vars

InitSpecFee == CoordIdle /\ PoolIdle /\ InitScan /\ GasIdle /\ RestIdle
SpecFee == InitSpecFee /\ [][NextFee]_vars

InitSpecMin ==
    /\ CoordIdle /\ PoolIdle /\ InitScan /\ GasIdle
    /\ InitQuote /\ InitNetGas /\ InitFee /\ InitConfig /\ InitMin
    /\ CadenceIdle /\ InitPasses /\ LateIdle
SpecMin == InitSpecMin /\ [][NextMin]_vars

\* the coordinator under the cron cadences: start() is called, the cron
\* instants keep coming, every callback of an instant runs, and the awaits
\* of a cycle return
InitSpecCadence ==
    /\ InitCoord /\ PoolIdle /\ InitScan /\ GasIdle
    /\ InitQuote /\ InitNetGas /\ InitFee /\ InitConfig /\ MinIdle
    /\ InitCadence /\ InitPasses /\ LateIdle
CadenceFairness ==
    /\ WF_vars(\E s \in GasSamples \cup {SampleFail} : Start(s))
    /\ WF_vars(NextInstant)
    /\ \A p \in Scheduled : WF_vars(CronFires(p))
    /\ \A p \in Scheduled :
          WF_vars(\E s \in GasSamples \cup {SampleFail} :
                     HealthCheckReturns(p, s))
    /\ \A p \in Scheduled : WF_vars(NetVerdict(p))
    /\ \A p \in Cycles :
          /\ WF_vars(\E reply \in PausedReplies : PauseReturns(p, reply))
          /\ WF_vars(\E found \in BOOLEAN : ScanReturns(p, found))
          /\ WF_vars(ExecuteReturns(p))
SpecCadence == InitSpecCadence /\ [][NextCadence]_vars /\ CadenceFairness

InitSpecPasses == CoordIdle /\ PoolIdle /\ InitScan /\ GasIdle /\ RestIdle
SpecPasses == InitSpecPasses /\ [][NextPasses]_vars

InitSpecCallers ==
    /\ CoordIdle /\ InitPool /\ InitScan /\ GasIdle
    /\ InitQuote /\ InitNetGas /\ InitFee /\ InitConfig
    /\ MinIdle /\ CadenceIdle /\ InitPasses /\ InitCallers /\ InitExec
SpecCallers == InitSpecCallers /\ [][NextCallers]_vars

InitSpecExec == InitCoord /\ PoolIdle /\ InitScan /\ GasIdle /\ RestIdle
SpecExec == InitSpecExec /\ [][NextExec]_vars

(***************************************************************************)
(* Claims about the coordinator (checked under SpecCoord)                  *)
(***************************************************************************)
\* C1: at most one scan cycle (startup, tier-1, tier>1) is executing at any
\* time, whatever the interleaving of triggers with the suspension points
\* of a running cycle; a cycle that is executing holds the flag.
C1_SingleCycle ==
    /\ Cardinality({p \in Cycles : pc[p] # "idle"}) <= 1
    /\ \A p \in Cycles : pc[p] # "idle" => isRunning

\* a tier>1 trigger fired while a tier-1 cycle was suspended in its scan
C1_Witness ==
    /\ pc["high"] = "scan"
    /\ lastTrigger = [cycle |-> "low", skipped |-> TRUE]
    /\ lastExit.cycle = "initial"

\* C2: a trigger that fires while the flag is set performs no readiness
\* check, no pause check and no scan, leaves the flag set, and is not run
\* later: a scheduled cycle only ever starts in its own trigger's step, with
\* the flag clear.
C2_SkippedDoesNothing ==
    [][/\ (lastTrigger' # lastTrigger /\ isRunning) =>
            /\ lastTrigger'.skipped
            /\ isRunning'
            /\ UNCHANGED <<pc, networkHealth, cycleNetHealthy, cyclePaused,
                           lastExit, botStarted>>
       /\ \A p \in Scheduled :
            (pc[p] = "idle" /\ pc'[p] # "idle") =>
                /\ ~isRunning
                /\ lastTrigger' = [cycle |-> p, skipped |-> FALSE]
      ]_vars

\* a tier-1 trigger was skipped during the startup scan, which goes on
C2_Witness ==
    /\ lastTrigger = [cycle |-> "high", skipped |-> TRUE]
    /\ pc["initial"] = "scan"
    /\ pc["high"] = "idle"
    /\ isRunning

\* C3: every cycle that set the flag clears it when it ends, on every exit
\* path (network not ready, contract paused, normal completion, error).
C3_FlagReleased ==
    [][\A p \in Cycles :
          (pc[p] # "idle" /\ pc'[p] = "idle") =>
              /\ ~isRunning'
              /\ lastExit'.cycle = p
              /\ lastExit'.path \in ExitPaths
      ]_vars

\* a scheduled cycle has ended by an error, and the flag is clear
C3_Witness ==
    /\ lastExit.cycle \in Scheduled
    /\ lastExit.path = "error"
    /\ ~isRunning
    /\ \A p \in Cycles : pc[p] = "idle"

\* C4 (as claimed): in every cycle, startup or scheduled, no triple is
\* scanned and nothing is executed when the network is not ready or the
\* contract is paused.
C4_NoScanUnlessReady ==
    \A p \in Cycles :
        pc[p] \in {"scan", "execute"} =>
            cycleNetHealthy[p] /\ cyclePaused[p] = "notPaused"


\* C23 (as claimed): once a cycle has started, the scan-in-progress flag is
\* eventually cleared, however long the network calls of the cycle take
\* and even if one of them never completes.
C23_FlagEventuallyCleared ==
    \A p \in Cycles : (pc[p] # "idle") ~> ~isRunning

(***************************************************************************)
(* Claims about the endpoint pool (checked under SpecPool)                 *)
(***************************************************************************)
\* C5 (as claimed): after exactly 3 consecutive reportFailure calls on the
\* currently selected endpoint, the next acquire() returns a different
\* endpoint, whatever the pool size and the state of the other endpoints.
C5_NextAcquireDiffers ==
    (lastCall.op = "getProvider" /\ lastCall.after # NoIdx) =>
        lastCall.idx # lastCall.after

\* C5 (amended): after 3 consecutive reportFailure calls on the currently
\* selected endpoint X, with no cooldown expiry since the first of them, the
\* next acquire() returns a different endpoint whenever some other endpoint
\* is Healthy, under the failure threshold and outside the 500 ms window;
\* when none is, it falls back to the primary (which may be X itself).
C5_NextAcquireDiffersIfOtherUsable ==
    [][(failRun = FailThreshold /\ GetProvider) =>
           LET x == lastCall.idx
               usable(j) == /\ healthStatus[j]
                            /\ failCounts[j] < FailThreshold
                            /\ now - lastUsed[j] > RateLimitMs
           IN  /\ lastCall'.after = x
               /\ IF \E j \in Idx \ {x} : usable(j)
                  THEN lastCall'.idx # x /\ usable(lastCall'.idx)
                  ELSE lastCall'.idx = 0 /\ currentIndex' = 0
      ]_vars

\* in a pool of two, endpoint 0 failed 3 times in a row and the next
\* acquire() returned endpoint 1
C5_Witness ==
    /\ numProviders = 2
    /\ lastCall = [op |-> "getProvider", idx |-> 1, path |-> "current",
                   after |-> 0]
    /\ ~healthStatus[0]
    /\ failCounts[0] = FailThreshold

\* C6 (as claimed): when the cooldown of an endpoint's 3rd failure elapses,
\* that same endpoint becomes Healthy and its failure count becomes 0.
C6_CooldownResetsFailedEndpoint ==
    [][\A x \in Idx :
          cooldownTimers'[x] < cooldownTimers[x] =>
              healthStatus'[x] /\ failCounts'[x] = 0
      ]_vars

\* C7: acquire() returns an endpoint within the call in every pool state;
\* when no endpoint qualifies it resets every failure count to 0, points at
\* the primary and returns it; it never waits and never fails.
C7_AcquireAlwaysReturns ==
    /\ [][GetProvider =>
             /\ lastCall'.idx \in Idx
             /\ currentIndex' = lastCall'.idx
             /\ lastUsed'[lastCall'.idx] = now
             /\ (\A j \in Idx : ~(/\ healthStatus[j]
                                  /\ failCounts[j] < FailThreshold
                                  /\ now - lastUsed[j] > RateLimitMs))
                  => /\ lastCall'.idx = 0
                     /\ \A j \in Idx : failCounts'[j] = 0
         ]_vars
    /\ [](ENABLED GetProvider)

\* in a pool of two with no qualifying endpoint, acquire() took the
\* fallback and returned the primary, still flagged Unhealthy
C7_Witness ==
    /\ numProviders = 2
    /\ lastCall.op = "getProvider"
    /\ lastCall.path = "fallback"
    /\ lastCall.idx = 0
    /\ ~healthStatus[0]
    /\ ~healthStatus[1]

\* C8 (as claimed): an endpoint is marked Unhealthy when it accumulates 3
\* failure reports with no success report in between (here: the 3rd failure
\* report in a row that lands on it, no success report and no failure
\* report for another endpoint in between, marks it), and the pointer then
\* advances to the next endpoint.
C8_MarkedAtThreeSinceSuccess ==
    [][(/\ ReportFailure
        /\ failStreak.n = FailThreshold - 1
        /\ failStreak'.n = FailThreshold) =>
          LET i == lastCall'.idx
          IN  /\ cooldownTimers'[i] = cooldownTimers[i] + 1
              /\ ~healthStatus'[i]
              /\ currentIndex' = (i + 1) % numProviders
      ]_vars

\* C8 (amended): reportFailure adds 1 to the count of the current endpoint
\* and marks it Unhealthy exactly when the count is then 3 or more, the
\* pointer advancing to the next endpoint at that moment; the count is
\* reset to 0 by reportSuccess on the current endpoint, and also by a
\* cooldown expiry and by the fallback of acquire().
C8_MarkedAtThreshold ==
    [][/\ ReportFailure =>
            LET i == lastCall'.idx
                marked == cooldownTimers'[i] = cooldownTimers[i] + 1
            IN  /\ i = currentIndex
                /\ failCounts' = [failCounts EXCEPT ![i] = @ + 1]
                /\ marked <=> failCounts'[i] >= FailThreshold
                /\ marked => /\ ~healthStatus'[i]
                             /\ currentIndex' = (i + 1) % numProviders
                /\ ~marked => UNCHANGED <<healthStatus, currentIndex>>
       /\ ReportSuccess =>
            /\ failCounts' = [failCounts EXCEPT ![currentIndex] = 0]
            /\ UNCHANGED <<healthStatus, currentIndex, cooldownTimers>>
       /\ \A i \in Idx :
            failCounts'[i] < failCounts[i] =>
                \/ ReportSuccess
                \/ GetProvider /\ lastCall'.path = "fallback"
                \/ \E x \in Idx : CooldownExpires(x)
      ]_vars

\* in a pool of two, the third failure report in a row on endpoint 0 has
\* marked it and moved the pointer to endpoint 1
C8_Witness ==
    /\ numProviders = 2
    /\ lastCall.op = "reportFailure"
    /\ lastCall.idx = 0
    /\ failRun = FailThreshold
    /\ failCounts[0] = FailThreshold
    /\ ~healthStatus[0]
    /\ currentIndex = 1
    /\ cooldownTimers[0] = 1

(***************************************************************************)
(* Claims about the scan (checked under SpecScan)                          *)
(***************************************************************************)
\* C9: every opportunity in the list a scan builds and returns has a profit
\* percentage at or above the minimum-profit threshold; a candidate below
\* the threshold never appears in it.
C9_ListAtOrAboveThreshold ==
    /\ \A k \in DOMAIN opportunities :
          /\ ~opportunities[k].profitResult.error
          /\ opportunities[k].profitResult.profitPercentage
                >= MIN_PROFIT_PERCENTAGE * 100
    /\ best.found =>
          best.profitResult.profitPercentage >= MIN_PROFIT_PERCENTAGE * 100

\* a scan returned a non-empty list although the last amount it swept was
\* below the threshold
C9_Witness ==
    /\ scanPc = "done"
    /\ Len(opportunities) = MaxLoops
    /\ lastOutcome = "none"
    /\ \E k \in DOMAIN opportunities :
          opportunities[k].profitResult.profitPercentage
             = MIN_PROFIT_PERCENTAGE * 100 + 40

\* C10: every candidate passed to the evaluator and every opportunity
\* returned has three strictly positive minimum outputs; an amount with a
\* zero minimum is discarded without being evaluated.
C10_MinimumsPositive ==
    /\ lastCandidate # <<>> => \A h \in 1 .. 3 : lastCandidate[h] > 0
    /\ lastOutcome = "zeroMin" => lastCandidate = <<>>
    /\ best.found => \A h \in 1 .. 3 : best.minAmountsOut[h] > 0
    /\ \A k \in DOMAIN opportunities :
          \A h \in 1 .. 3 : opportunities[k].minAmountsOut[h] > 0

\* an amount with a zero minimum was discarded after an earlier amount of
\* the same sweep had been evaluated and kept
C10_Witness ==
    /\ lastOutcome = "zeroMin"
    /\ lastCandidate = <<>>
    /\ best.found
    /\ \A h \in 1 .. 3 : best.minAmountsOut[h] > 0

\* C11: a scan never throws: whichever router quotes, token-metadata reads
\* and oracle calls fail it goes on to return a list, and a failure in one
\* swept amount or one rotation leaves the remaining amounts and rotations
\* to be evaluated.
C11_ScanNeverAborts ==
    /\ [][/\ scanPc' \in {"idle", "begin", "sweep", "done", "acted"}
          /\ (/\ scanPc = "sweep"
              /\ amtNo' = amtNo + 1
              /\ lastOutcome' \in {"quoteFailed", "oracleFailed"}) =>
                 /\ scanPc' = "sweep"
                 /\ UNCHANGED <<loopNo, best, opportunities>>
          /\ lastOutcome' = "loopFailed" /\ loopNo' # loopNo =>
                 /\ scanPc' = "begin"
                 /\ loopNo' = loopNo + 1
                 /\ UNCHANGED opportunities
          /\ scanPc # "done" /\ scanPc' = "done" => loopNo = MaxLoops + 1
       ]_vars
    /\ [](/\ scanPc = "idle" => ENABLED StartScan
          /\ scanPc = "begin" =>
                \/ ENABLED BeginLoop(TRUE, CycleFail, CycleFail)
                \/ ENABLED EndScan
          /\ scanPc = "sweep" =>
                \/ ENABLED SweepAmount(SwapFailed, OracleFail, ConvFail,
                                       GasFail)
                \/ ENABLED EndLoop)

\* the last rotation of a scan failed as a whole, and the scan still
\* returned the opportunity found by an earlier rotation
C11_Witness ==
    /\ scanPc = "done"
    /\ lastOutcome = "loopFailed"
    /\ Len(opportunities) = 1

\* C12: the evaluator never throws: when the oracle call fails or is
\* malformed, or the gas-price or price conversion fails, it returns a
\* result that is rejected, and the sweep goes on to the next amount.
C12_EvaluatorFailureRejected ==
    [][(/\ lastEval'.called
        /\ amtNo' = amtNo + 1
        /\ \/ lastEval'.userProfit = OracleFail
           \/ lastEval'.price = ConvFail
           \/ lastEval'.gasCostUSD = GasFail) =>
           /\ lastEval'.profitResult.error
           /\ ~lastEval'.profitResult.isProfit
           /\ lastOutcome' = "oracleFailed"
           /\ scanPc' = "sweep"
           /\ UNCHANGED <<best, opportunities, loopNo>>
      ]_vars

\* an evaluation failed after an earlier amount of the same sweep had been
\* accepted; the accepted one is kept and the sweep goes on
C12_Witness ==
    /\ scanPc = "sweep"
    /\ lastOutcome = "oracleFailed"
    /\ lastEval.called
    /\ lastEval.profitResult.error
    /\ best.found
    /\ amtNo = NumAmounts + 1

\* C13: the direction simulated for a rotation is the reverse of the
\* requested one exactly when both cycle quotes succeeded, PancakeSwap's
\* output is not zero and |pancake - biswap| / pancake is at least 5%.
C13_ReversedIffGapAtLeastFive ==
    [][\A requested \in BOOLEAN,
          pancakePrice \in CycleOutputs \cup {CycleFail},
          biswapPrice \in CycleOutputs \cup {CycleFail} :
          BeginLoop(requested, pancakePrice, biswapPrice) =>
             /\ originalDirection' = requested
             /\ direction' # requested <=>
                   /\ pancakePrice # CycleFail
                   /\ biswapPrice # CycleFail
                   /\ pancakePrice > 0
                   /\ \/ (pancakePrice - biswapPrice) * 100
                            >= ReverseGapPercent * pancakePrice
                      \/ (biswapPrice - pancakePrice) * 100
                            >= ReverseGapPercent * pancakePrice
      ]_vars

\* outputs 100 and 94 (a gap of 6%): the requested direction was reversed
C13_Witness ==
    /\ scanPc = "sweep"
    /\ priceGap = 6
    /\ originalDirection = TRUE
    /\ direction = FALSE

\* C14: net profit = profit value - gas cost value; profit percentage =
\* net profit / loan value x 100, 0 when the loan value is 0; the result is
\* accepted exactly when the percentage is at or above the threshold.
C14_ProfitArithmetic ==
    (/\ lastEval.called
     /\ lastEval.userProfit # OracleFail
     /\ lastEval.price # ConvFail
     /\ lastEval.gasCostUSD # GasFail) =>
        LET r == lastEval.profitResult
            net == lastEval.userProfit * lastEval.price - lastEval.gasCostUSD
            loan == lastEval.loanAmount * lastEval.price
            pct == r.profitPercentage
        IN  /\ ~r.error
            /\ r.netProfitUSD = net
            /\ r.loanAmountUSD = loan
            /\ loan = 0 => pct = 0
            /\ loan > 0 => /\ pct * loan <= net * 100 * 100
                           /\ net * 100 * 100 < (pct + 1) * loan
            /\ r.isProfit <=> pct >= MIN_PROFIT_PERCENTAGE * 100
            /\ lastOutcome \in {"best", "notBetter"} <=>
                  pct >= MIN_PROFIT_PERCENTAGE * 100
            /\ lastOutcome = "belowThreshold" <=>
                  pct < MIN_PROFIT_PERCENTAGE * 100

\* gas 2, profit 10, loan 1000: net 8, 0.8%, rejected
C14_Witness ==
    /\ lastEval.called
    /\ lastEval.userProfit = 10
    /\ lastEval.price = 1
    /\ lastEval.gasCostUSD = 2
    /\ lastEval.loanAmount = 1000
    /\ ~lastEval.profitResult.error
    /\ lastEval.profitResult.netProfitUSD = 8
    /\ lastEval.profitResult.profitPercentage = 80
    /\ ~lastEval.profitResult.isProfit
    /\ lastOutcome = "belowThreshold"

\* C19: the list a scan returns and the list the coordinator acts on are in
\* non-increasing order of profit percentage; the coordinator hands at most
\* one opportunity to the executor, the first of the list, whose profit
\* percentage is the maximum, and only when execution is enabled.
C19_SortedAndBestSubmitted ==
    /\ scanPc \in {"done", "acted"} =>
          \A j, k \in DOMAIN opportunities :
             j < k => opportunities[j].profitResult.profitPercentage
                         >= opportunities[k].profitResult.profitPercentage
    /\ Len(submitted) <= 1
    /\ submitted # <<>> =>
          /\ scanPc = "acted"
          /\ executionEnabled
          /\ submitted[1] = opportunities[1]
          /\ \A k \in DOMAIN opportunities :
                submitted[1].profitResult.profitPercentage
                   >= opportunities[k].profitResult.profitPercentage
    /\ (scanPc = "acted" /\ executionEnabled /\ opportunities # <<>>) =>
          submitted # <<>>

\* two opportunities of different profit were found and the better one was
\* handed to the executor
C19_Witness ==
    /\ scanPc = "acted"
    /\ executionEnabled
    /\ Len(opportunities) = 2
    /\ opportunities[1].profitResult.profitPercentage
          > opportunities[2].profitResult.profitPercentage
    /\ opportunities[1].loanAmount < opportunities[2].loanAmount
    /\ submitted = <<opportunities[1]>>

\* C15: in monitoring mode (EXECUTION_ENABLED false) no cycle ever reaches
\* executeArbitrage(), the only call of a cycle that submits a transaction,
\* whatever the scans find: a cycle whose scan returned opportunities ends
\* straight after ranking and logging them.
C15_MonitoringNeverExecutes ==
    [][~executionEnabled =>
          /\ \A p \in Cycles : pc'[p] # "execute"
          /\ \A p \in Cycles : ~ExecuteReturns(p)
          /\ \A p \in Cycles :
                ScanReturns(p, TRUE) =>
                    lastExit' = [cycle |-> p, path |-> "done", found |-> TRUE]
      ]_vars

\* in monitoring mode a scheduled cycle found opportunities and ended
C15_Witness ==
    /\ ~executionEnabled
    /\ lastExit = [cycle |-> "high", path |-> "done", found |-> TRUE]
    /\ pc = [p \in Cycles |-> "idle"]

\* C16: after each run of checkNetworkHealth(): a successful sample above
\* the ceiling leaves the network unhealthy; a successful sample at or below
\* it leaves the network healthy with the failure counter at 0; a failed
\* sample adds 1 to the counter, leaves the network unhealthy once 3
\* failures in a row have occurred, and leaves the flag as it was before
\* that.
C16_HealthAfterCheck ==
    [][\A s \in GasSamples \cup {SampleFail} :
          (\/ Start(s)
           \/ NetworkHealthCron(s)
           \/ \E p \in Scheduled : HealthCheckReturns(p, s)) =>
              /\ (s # SampleFail /\ s > MAX_GAS_PRICE_GWEI) =>
                     ~networkHealth'.isHealthy
              /\ (s # SampleFail /\ s <= MAX_GAS_PRICE_GWEI) =>
                     /\ networkHealth'.isHealthy
                     /\ networkHealth'.failedAttempts = 0
              /\ s = SampleFail =>
                     /\ networkHealth'.failedAttempts =
                            networkHealth.failedAttempts + 1
                     /\ networkHealth'.isHealthy =
                            (IF consecFails' >= 3
                             THEN FALSE ELSE networkHealth.isHealthy)
      ]_vars

\* the third failure in a row has just turned a healthy network unhealthy
C16_Witness ==
    /\ consecFails = 3
    /\ networkHealth.failedAttempts = 3
    /\ ~networkHealth.isHealthy
    /\ networkHealth.gasPrice <= MAX_GAS_PRICE_GWEI

\* C17 (as claimed): a call of isNetworkReadyForArbitrage() re-runs the
\* health check only if the check it last re-ran, successful or failed, is
\* more than 5 minutes old: two calls less than 5 minutes apart never both
\* run it.
C17_RecheckOnlyAfterFiveMinutes ==
    [][\A p \in Scheduled :
          (TriggerStart(p) /\ pc'[p] = "healthCheck") =>
              clock - lastRecheckAt > RecheckMinutes
      ]_vars

C21_ProbeRestoresEligibility ==
    [][\A i \in Idx :
          (~healthStatus[i] /\ ProbeReturns(i, TRUE)) =>
              (healthStatus'[i] /\ failCounts'[i] < FailThreshold)
      ]_vars

\* C22: a health probe sets the health flag of the endpoint probed to the
\* outcome of the probe (Healthy on a reply, Unhealthy on an error or a
\* timeout) and changes no other health flag, no failure count, no
\* last-used time and not the rotation pointer.
C22_ProbeFrame ==
    [][\A i \in Idx, ok \in BOOLEAN :
          ProbeReturns(i, ok) =>
              /\ healthStatus'[i] = ok
              /\ \A j \in Idx \ {i} : healthStatus'[j] = healthStatus[j]
              /\ failCounts' = failCounts
              /\ lastUsed' = lastUsed
              /\ currentIndex' = currentIndex
      ]_vars

\* a probe answered for an endpoint that carries failures: it is Healthy
\* again and its count is what it was
C22_Witness ==
    /\ numProviders = 2
    /\ lastCall.op = "reportFailure"
    /\ currentIndex = 1
    /\ failCounts[0] = FailThreshold
    /\ healthStatus[0]
    /\ cooldownTimers[0] = 1

(***************************************************************************)
(* Claims about RPCManager.getGasPrice (checked under SpecGas)             *)
(***************************************************************************)
\* C18 (as claimed): getGasPrice() makes at most RPC_RETRY_COUNT requests,
\* waits min(1000 * 2^(k-1), 10000) ms after the k-th failed request before
\* the next one, returns 5 gwei when every request failed, and for every
\* configured RPC_RETRY_COUNT returns a price.
C18_RetriesBackoffAndDefault ==
    /\ requests <= retryCount
    /\ gasPc \in {"loop", "request", "sleep"} => Len(waits) = attempts
    /\ \A k \in 1 .. Len(waits) :
          waits[k] = (IF BackoffBaseMs * (2 ^ (k - 1)) < BackoffCapMs
                      THEN BackoffBaseMs * (2 ^ (k - 1)) ELSE BackoffCapMs)
    /\ gasPc = "returned" =>
          /\ gasResult >= 0
          /\ attempts = requests => gasResult = DefaultGasPriceGwei
    /\ gasPc # "returned" =>
          ENABLED (GetGasPriceCalled \/ BeginAttempt \/ RequestFails
                   \/ SleepEnds)

(***************************************************************************)
(* Claims about the router quotes (checked under SpecQuote)                *)
(***************************************************************************)
\* C24: checkTriangularPrice() asks its three hop quotes one after the
\* other, all of the router it was given, the first for amountIn and each
\* later one for exactly the previous hop's output; it returns the third
\* hop's output, and as soon as a hop fails or comes back short it returns
\* null and asks no further hop.
C24_CycleQuoteSequential ==
    /\ [](qCall = "cycle" =>
            /\ Len(issued) <= 3
            /\ Len(issued) \in {Len(outs), Len(outs) + 1}
            /\ \A k \in 1 .. Len(issued) :
                  /\ issued[k].exchange = qRouter
                  /\ issued[k].amountIn =
                        (IF k = 1 THEN qAmountIn ELSE outs[k - 1])
            /\ (qResult.returned /\ ~qResult.null) =>
                  /\ Len(outs) = 3
                  /\ Len(issued) = 3
                  /\ qResult.amountOut = outs[3]
            /\ (qResult.returned /\ qResult.null) =>
                  Len(issued) = Len(outs) + 1)
    /\ [][(qCall = "cycle" /\ (HopReturns(HopThrows) \/ HopReturns(HopShort)))
             => (qResult' = Null /\ issued' = issued /\ qPc' = "done")
         ]_vars

\* a cycle quote on BiSwap went through three hops with differing outputs
C24_Witness ==
    /\ qCall = "cycle"
    /\ qRouter = "biswap"
    /\ qAmountIn = 100
    /\ outs = <<90, 110, 90>>
    /\ qResult.returned
    /\ ~qResult.null
    /\ qResult.amountOut = 90

\* C25: calculateSwapOutputs() with direction 'PancakeSwap first' quotes
\* hops 1 and 3 on PancakeSwap and hop 2 on BiSwap, and the other way round
\* for 'BiSwap first'; hop 1 is quoted for the loan amount, hop 2 for hop
\* 1's output and hop 3 for hop 2's output; as soon as a hop fails the call
\* returns failure and quotes no later hop.
C25_SwapQuoteExchanges ==
    /\ [](qCall = "swap" =>
            /\ Len(issued) <= 3
            /\ Len(issued) \in {Len(outs), Len(outs) + 1}
            /\ \A k \in 1 .. Len(issued) :
                  /\ issued[k].exchange =
                        (IF qDirection
                         THEN (IF k = 2 THEN "biswap" ELSE "pancake")
                         ELSE (IF k = 2 THEN "pancake" ELSE "biswap"))
                  /\ issued[k].amountIn =
                        (IF k = 1 THEN qAmountIn ELSE outs[k - 1])
            /\ (qResult.returned /\ qResult.success) =>
                  /\ Len(issued) = 3
                  /\ <<qResult.amountOut1, qResult.amountOut2,
                       qResult.amountOut3>> = outs
                  /\ qResult.loanAmount = qAmountIn
            /\ (qResult.returned /\ ~qResult.success) =>
                  Len(issued) = Len(outs) + 1)
    /\ [][(qCall = "swap" /\ (HopReturns(HopThrows) \/ HopReturns(HopShort)))
             => (qResult' = Failure /\ issued' = issued /\ qPc' = "done")
         ]_vars

\* a simulation starting on BiSwap failed at its third hop
C25_Witness ==
    /\ qCall = "swap"
    /\ ~qDirection
    /\ issued = <<[exchange |-> "biswap", amountIn |-> 200],
                  [exchange |-> "pancake", amountIn |-> 110],
                  [exchange |-> "biswap", amountIn |-> 90]>>
    /\ qResult = Failure

(***************************************************************************)
(* Claims about NetworkService.getGasPrice (checked under SpecNetGas)      *)
(***************************************************************************)
\* C26 (as claimed): getGasPrice() asks the network for a new sample only
\* when the last sample, taken by checkNetworkHealth() or by an earlier
\* getGasPrice(), is at least 2 minutes old.
C26_SampleReusedTwoMinutes ==
    [][\A m100 \in Multipliers :
          (GetGasPrice(m100) /\ gPc' = "sampling") =>
              /\ clock - networkHealth.lastCheckTime >= CacheMinutes
              /\ clock - lastGasSampleAt >= CacheMinutes
      ]_vars

\* C27 (as claimed): getGasPrice(m) returns price * floor(m * 100) / 100 on
\* every path: from the cache, after a fresh sample, and when sampling
\* fails and the stored price is returned.
C27_MultiplierOnEveryPath ==
    lastGas.path # "none" =>
        lastGas.value = (lastGas.price * UnitsPerGwei * lastGas.m100) \div 100

(***************************************************************************)
(* Claims about ProfitCalculator.updateFeeParameters (checked under        *)
(* SpecFee)                                                                *)
(***************************************************************************)
\* C28: a fee-parameter refresh is all-or-nothing.  While its reads are
\* outstanding and after any of them has failed, all four cached values are
\* the ones held when the refresh began, and the refresh returns without
\* throwing; after four successful reads the cache holds exactly the four
\* values read.
C28_RefreshAllOrNothing ==
    /\ feeOutcome \in {"running", "failed"} => feeParameters = feeBefore
    /\ feeOutcome = "ok" =>
          /\ Len(feeReads) = 4
          /\ \A k \in 1 .. 4 : feeParameters[FeeFields[k]] = feeReads[k]
    /\ feeOutcome # "threw"

\* a refresh whose third read failed after two reads had returned new values
C28_Witness ==
    /\ feeOutcome = "failed"
    /\ Len(feeReads) = 2
    /\ feeReads[1] # feeParameters.pancakeSwapFeeNumerator
    /\ feeParameters = feeBefore

(***************************************************************************)
(* Claims about the configured threshold (checked under                    *)
(* SpecScanConfigured)                                                     *)
(***************************************************************************)
\* C29 (as claimed): whatever threshold is configured, a candidate whose
\* input token is unpriced (getTokenPriceUSD() returned 0) never becomes
\* the best candidate of its sweep, and no returned opportunity is valued
\* at a price of 0.
C29_UnpricedNeverAccepted ==
    /\ (lastEval.called /\ lastEval.price = 0) => lastOutcome # "best"
    /\ \A i \in 1 .. Len(opportunities) :
          opportunities[i].profitResult.loanAmountUSD > 0

(***************************************************************************)
(* Claims about the sweep of one checkArbitrageLoop() (checked under       *)
(* SpecScan)                                                               *)
(***************************************************************************)
\* the swept amounts that cleared the threshold
Cleared == {k \in 1 .. Len(swept) : swept[k].cleared}

\* the earliest of the cleared amounts with the highest profit percentage
Winner ==
    CHOOSE k \in Cleared :
        \A j \in Cleared :
            \/ swept[j].profitResult.profitPercentage
                  < swept[k].profitResult.profitPercentage
            \/ /\ swept[j].profitResult.profitPercentage
                     = swept[k].profitResult.profitPercentage
               /\ k <= j

\* C30: when the sweep of one checkArbitrageLoop() returns, it returns
\* nothing if no swept amount cleared the threshold; otherwise it returns
\* one opportunity, whose loan amount, three minimum outputs and profit
\* result are those of the earliest swept amount with the highest profit
\* percentage among the amounts that cleared the threshold.
C30_BestSweptAmountReturned ==
    [][EndLoop =>
          IF Cleared = {}
          THEN opportunities' = opportunities
          ELSE /\ Len(opportunities') = Len(opportunities) + 1
               /\ SubSeq(opportunities', 1, Len(opportunities))
                     = opportunities
               /\ LET o == opportunities'[Len(opportunities')]
                  IN  /\ o.loanAmount = swept[Winner].loanAmount
                      /\ o.minAmountsOut = swept[Winner].minAmountsOut
                      /\ o.profitResult = swept[Winner].profitResult
      ]_vars

\* a sweep is over in which two amounts cleared the threshold with the same
\* profit percentage, and the first of them is held as the best
C30_Witness ==
    /\ scanPc = "sweep"
    /\ amtNo > NumAmounts
    /\ Cleared = {1, 2}
    /\ swept[1].profitResult.profitPercentage
          = swept[2].profitResult.profitPercentage
    /\ best.found
    /\ best.loanAmount = LoanAmount(1)

(***************************************************************************)
(* Claims about the flash-loan pair (checked under SpecScan)               *)
(***************************************************************************)
\* the addresses a table configures for two tokens, in either order
ConfiguredPairs(table, tokenA, tokenB) ==
    {table[k].address : k \in {j \in 1 .. Len(table) :
                                  /\ table[j].key \in {<<tokenA, tokenB>>,
                                                       <<tokenB, tokenA>>}
                                  /\ table[j].address # NoPair}}

\* C31: while amounts are swept, the flash-loan pair is a pair configured for
\* the rotation's first two tokens in the table of the exchange the cycle
\* starts on after any reversal; every returned opportunity carries such a
\* pair of its own first two tokens; and a rotation whose table has no such
\* pair returns nothing before any amount is swept.
C31_FlashLoanPairOfStartingExchange ==
    /\ [](/\ scanPc = "sweep" =>
                flashLoanPair \in
                    ConfiguredPairs(IF direction THEN pancakeswapPairs
                                                 ELSE biswapPairs,
                                    RotationTokens(loopNo)[1],
                                    RotationTokens(loopNo)[2])
          /\ \A i \in 1 .. Len(opportunities) :
                opportunities[i].flashLoanPair \in
                    ConfiguredPairs(pancakeswapPairs,
                                    opportunities[i].tokenA,
                                    opportunities[i].tokenB)
                    \cup ConfiguredPairs(biswapPairs,
                                         opportunities[i].tokenA,
                                         opportunities[i].tokenB))
    /\ [][/\ (scanPc = "begin" /\ loopNo' = loopNo + 1) =>
               /\ ConfiguredPairs(IF direction' THEN pancakeswapPairs
                                                ELSE biswapPairs,
                                  RotationTokens(loopNo)[1],
                                  RotationTokens(loopNo)[2]) = {}
               /\ scanPc' = "begin"
               /\ swept' = <<>>
               /\ UNCHANGED opportunities
          /\ (scanPc = "sweep" /\ Len(opportunities') > Len(opportunities)) =>
               opportunities'[Len(opportunities')].flashLoanPair
                   = flashLoanPair
      ]_vars

\* an opportunity was returned by a rotation whose direction had been
\* reversed, with the pair of the exchange it started on after the reversal
C31_Witness ==
    /\ scanPc = "begin"
    /\ loopNo = 2
    /\ direction # originalDirection
    /\ Len(opportunities) = 1
    /\ opportunities[1].flashLoanPair = flashLoanPair
    /\ flashLoanPair \in {"pancake:A-B", "biswap:B-A"}

(***************************************************************************)
(* Claims about the minimum outputs (checked under SpecMin)                *)
(***************************************************************************)
\* C32: each hop's minimum output is its quoted output less 1%, rounded
\* down to a base unit; outputs of 95, 90 and 102 tokens give minimums of
\* 94.05, 89.10 and 100.98 tokens, none zero, and the candidate goes on to
\* evaluation; a candidate goes on to evaluation exactly when no minimum is
\* zero.
C32_MinimumsLessOnePercent ==
    mPc # "quoted" =>
        /\ \A h \in 1 .. 3 :
              /\ 100 * mMins[h] <= 99 * mQuoted[h]
              /\ 99 * mQuoted[h] < 100 * (mMins[h] + 1)
        /\ mPc = "evaluate" <=> \A h \in 1 .. 3 : mMins[h] > 0
        /\ mQuoted = <<95 * BaseUnitsPerToken, 90 * BaseUnitsPerToken,
                       102 * BaseUnitsPerToken>> =>
              /\ 100 * mMins[1] = 9405 * BaseUnitsPerToken
              /\ 100 * mMins[2] = 8910 * BaseUnitsPerToken
              /\ 100 * mMins[3] = 10098 * BaseUnitsPerToken
              /\ mPc = "evaluate"

\* the outputs 95, 90 and 102 have been turned into minimums
C32_Witness ==
    /\ mPc = "evaluate"
    /\ mQuoted = <<95 * BaseUnitsPerToken, 90 * BaseUnitsPerToken,
                   102 * BaseUnitsPerToken>>
    /\ mMins = <<9405, 8910, 10098>>

(***************************************************************************)
(* Claims about the cron cadences (checked under SpecCadence)              *)
(***************************************************************************)
\* C33 (as claimed): under the two cadences, with every cycle finished
\* before the next cron instant, the low-priority job is not skipped every
\* time: again and again one of its triggers starts a cycle.
C33_LowPriorityKeepsRunning ==
    []<>(pc["low"] # "idle")

(***************************************************************************)
(* Claims about the two passes over a triple (checked under SpecPasses)    *)
(***************************************************************************)
\* C34 (as claimed): for each rotation, the call made with direction true
\* and the call made with direction false simulate the two different
\* exchange orderings, whatever price gap each of them sampled.
C34_BothOrderingsSimulated ==
    \A n \in 1 .. Len(passes), k \in 1 .. Len(passes) :
        (n < k /\ RotationAt(n) = RotationAt(k)) =>
            passes[n].direction # passes[k].direction

(***************************************************************************)
(* Further claims about the endpoint pool (checked under SpecPool)         *)
(***************************************************************************)
\* C35 (as claimed): every endpoint getProvider() returns is flagged Healthy
\* and has fewer than 3 failures when it is returned.
C35_ReturnedEndpointHealthy ==
    [][GetProvider =>
          /\ healthStatus'[lastCall'.idx]
          /\ failCounts'[lastCall'.idx] < FailThreshold
      ]_vars

\* C35 (amended): every endpoint getProvider() returns has fewer than 3
\* failures when it is returned; it is flagged Healthy unless the call took
\* the fallback, which returns the primary with every count reset to 0
\* whatever its health flag.
C35_ReturnedEndpointHealthyUnlessFallback ==
    [][GetProvider =>
          /\ failCounts'[lastCall'.idx] < FailThreshold
          /\ lastCall'.path # "fallback" => healthStatus'[lastCall'.idx]
          /\ lastCall'.path = "fallback" =>
                /\ lastCall'.idx = 0
                /\ failCounts'[0] = 0
                /\ healthStatus' = healthStatus
      ]_vars

\* in a pool of two, a probe marked the current endpoint 0 Unhealthy and
\* getProvider() moved to endpoint 1, Healthy and without failures
C35_Witness ==
    /\ numProviders = 2
    /\ lastCall.op = "getProvider"
    /\ lastCall.path = "switch"
    /\ lastCall.idx = 1
    /\ ~healthStatus[0]
    /\ failCounts[0] = 0
    /\ healthStatus[1]
    /\ failCounts[1] = 0

\* C37: getProvider() takes the fallback, which resets every failure count,
\* only when every endpoint is Unhealthy or has 3 or more failures; the
\* 500 ms rate-limit window alone never makes it reset the counts.
C37_FallbackOnlyWhenAllUnhealthy ==
    [][GetProvider /\ lastCall'.path = "fallback" =>
          \A i \in Idx : ~healthStatus[i] \/ failCounts[i] >= FailThreshold
      ]_vars

(***************************************************************************)
(* Claims about two callers of the pool (checked under SpecCallers)        *)
(***************************************************************************)
\* C36: when a caller acquired endpoint X and, while it awaited the answer,
\* another caller's getProvider() moved the pointer to a different endpoint,
\* the caller's success or failure report is counted against X.
C36_ReportCountedAgainstEndpointUsed ==
    (lastReport.caller # NoCaller /\ lastReport.overtaken) =>
        lastReport.landed = lastReport.used

(***************************************************************************)
(* Further claims about the coordinator (checked under SpecCoord)          *)
(***************************************************************************)
\* C38: when isNetworkReadyForArbitrage() re-runs checkNetworkHealth() and
\* the sample fails (checkNetworkHealth() returns false), the verdict
\* isNetworkReadyForArbitrage() returns from the health record the check
\* left is false, so that the cycle is skipped.
C38_VerdictAgreesWithFailedCheck ==
    [][\A p \in Scheduled :
          (/\ pc[p] = "healthCheck"
           /\ pc'[p] = "netVerdict"
           /\ consecFails' = consecFails + 1)
          => ~IsNetworkReady(networkHealth')
      ]_vars

(***************************************************************************)
(* Claims about the executor (checked under SpecExec)                      *)
(***************************************************************************)
\* the call failed one of its validations: the parameters, the
\* authorization of the loan pair, or the pause state
ValidationFailed ==
    \/ ~ValidParameters(eOpp)
    \/ eAuthReply \in {"no", "error"} /\ eAuthOutcome # "mined"
       /\ eAuthOutcome # "none"
    \/ ePausedReply \in {"paused", "error"}

\* C39: executeArbitrage() sends the flash-loan transaction only for valid
\* parameters, when the loan pair was answered to be authorized or
\* authorizePair() succeeded, and paused() answered false in this call; a
\* call whose read of the pause state failed, or any of whose validations
\* failed, has returned false and sent nothing; and a cycle whose pre-scan
\* read of the pause state fails is skipped as paused.
C39_SubmitsOnlyWhenAuthorizedAndNotPaused ==
    /\ [](/\ eSubmitted # <<>> =>
                /\ ValidParameters(eOpp)
                /\ eAuthReply = "yes" \/ eAuthOutcome = "mined"
                /\ ePausedReply = "notPaused"
          /\ Len(eSubmitted) <= 1
          /\ ePausedReply = "error" =>
                /\ ePc \in {"returned", "idle"}
                /\ eResult = "false"
                /\ eSubmitted = <<>>
          /\ (ePc = "returned" /\ ValidationFailed) =>
                eResult = "false" /\ eSubmitted = <<>>
          /\ ePc = "returned" => eResult \in {"true", "false"})
    /\ [][\A p \in Cycles :
             PauseReturns(p, "error") =>
                /\ pc'[p] = "idle"
                /\ lastExit' = [cycle |-> p, path |-> "paused",
                                found |-> FALSE]
         ]_vars

\* the pair was not authorized, authorizePair() succeeded, paused() answered
\* false and the transaction was sent and mined
C39_Witness ==
    /\ ePc = "returned"
    /\ eAuthReply = "no"
    /\ eAuthOutcome = "mined"
    /\ ePausedReply = "notPaused"
    /\ Len(eSubmitted) = 1
    /\ eResult = "true"

=============================================================================
